---------------------------- MODULE Spec2Model ----------------------------
(***************************************************************************)
(* CodeMaster Pro: the SQL tutorial sandbox and the widgets around it.     *)
(*                                                                         *)
(*   - SQLEngine.validate_sql_query   (src/database/sql_engine.py)         *)
(*   - SQLEngine.execute_query        (src/database/sql_engine.py)         *)
(*   - SQLTutorWidget.execute_query, display_query_results,                *)
(*     add_result_analysis, clear_query   (src/gui/sql_tutor.py)           *)
(*   - Config: __new__, __init__, load, get, set  (src/utils/config.py)    *)
(*   - SQLEngine.__init__, create_tables, populate_sample_data,            *)
(*     execute_update                     (src/database/sql_engine.py)     *)
(*   - WeatherAPI.get_current_weather     (src/apis/weather_api.py)        *)
(*   - Config.update_sql_progress, add_recent_project,                     *)
(*     reset_to_defaults, save            (src/utils/config.py)            *)
(*   - WeatherWidget: load_weather_data, update_weather_display,           *)
(*     the auto-refresh timer             (src/gui/weather_widget.py)      *)
(*   - CodeEditorWidget: the modified indicator (src/gui/code_editor.py)   *)
(*   - SQLTutorWidget.load_tutorial, load_example_query                    *)
(*                                        (src/gui/sql_tutor.py)           *)
(*                                                                         *)
(* Representation of Python text.  A str that carries user data (a query,  *)
(* a column name, a cell) is a sequence of one-character strings, so that  *)
(* strip, upper, "in", startswith, endswith, len and padding are computed  *)
(* character by character.  A text shown in a Tk widget is a sequence of   *)
(* fragments in the order the code writes them: Lit(s) is a literal of the *)
(* source (emoji of the source are left out of the literals), Txt(cs) is   *)
(* interpolated data.                                                      *)
(***************************************************************************)
EXTENDS Integers, Sequences, FiniteSets, TLC

VARIABLES
    guard_query,        \* argument of the latest direct validate_sql_query call
    guard_verdict,      \* what that call returned (NoVerdict before the call)
    query_input,        \* SQLTutorWidget.query_input: content of the text box
    validation_label,   \* SQLTutorWidget.validation_label: its text
    results_text,       \* SQLTutorWidget.results_text: content of the text box
    calls,              \* collaborator calls made by the latest handler, in order
    last_handler,       \* the handler that ran last ("init" after construction)
    fmt_query,          \* display_query_results called directly: its query
    fmt_results,        \* its results
    fmt_report,         \* content of the text box it writes into
    fmt_raised,         \* "pending" before the call, then "none" or the exception
    fmt_earlier,        \* the display_query_results calls made so far, in order
    cfg_instance,       \* Config._instance: 0 for None, else the object
    cfg_objects,        \* the Config objects ever allocated, with their attributes
    cfg_handles,        \* what each Config() call returned, in call order
    cfg_file,           \* ~/.codemaster_pro/config.json
    cfg_sets,           \* the set(key, value) calls made so far, in order
    cfg_got,            \* the latest get(key): who asked, what came back, and when
    db_tables,          \* the database file: the rows of the sample tables
    db_engines,         \* the SQLEngine objects under construction or constructed
    wx_api_key,         \* WeatherAPI.api_key
    wx_cache,           \* WeatherAPI.cache
    wx_now,             \* datetime.now(), in minutes
    wx_returned,        \* the latest get_current_weather call and its outcome
    cc_box,             \* results_text shared by concurrent callers
    cc_callers,         \* per caller: the invocation it makes and how far it is
    st_start,           \* the config file, and whether it can be written, at Config()
    st_heap,            \* the dict and list objects the two dicts refer to
    st_defaults,        \* Config.defaults
    st_config_data,     \* Config.config_data
    st_file,            \* ~/.codemaster_pro/config.json as save() left it
    st_last,            \* the latest Config operation and its arguments
    st_ops,             \* how many operations were made
    ww_entry,           \* WeatherWidget.location_entry: its text
    ww_weather_location,\* config weather_location
    ww_threads,         \* the fetch_weather threads started so far and where each is
    ww_current_weather, \* WeatherWidget.current_weather
    ww_forecast_data,   \* WeatherWidget.forecast_data
    ww_after,           \* the after(0, ...) callbacks waiting for the main loop
    ww_display,         \* where update_weather_display is on the main thread
    ww_shown,           \* what the weather display shows
    ww_auto_refresh,    \* WeatherWidget.auto_refresh_var
    ww_timers,          \* pending after(30 min, auto_refresh_callback) timers
    ww_toggles,         \* how many times the auto-refresh option was clicked
    ed_current_file,    \* CodeEditorWidget.current_file ("" for None)
    ed_modified_label,  \* CodeEditorWidget.modified_label: its text
    ed_edited,          \* the text was edited since the last open, save or new
    ed_timers,          \* pending after(2000, ...) resets of modified_label
    ed_events,          \* how many user events the editor has handled
    tu_current_tutorial,\* SQLTutorWidget.current_tutorial
    tu_current_lesson,  \* SQLTutorWidget.current_lesson
    tu_lesson_title,    \* SQLTutorWidget.lesson_title: its text
    tu_progress_label,  \* SQLTutorWidget.progress_label: its text
    tu_lesson_description,\* SQLTutorWidget.lesson_description: content and state
    tu_last,            \* the latest tutorial handler, its argument, the state before it
    tu_valid_load,      \* the index of the latest load_tutorial that passed its check
    tu_since_load       \* load_example_query calls made since that load_tutorial

guard_vars == <<guard_query, guard_verdict>>
widget_vars == <<query_input, validation_label, results_text, calls, last_handler>>
fmt_vars == <<fmt_query, fmt_results, fmt_report, fmt_raised, fmt_earlier>>
config_vars == <<cfg_instance, cfg_objects, cfg_handles, cfg_file, cfg_sets, cfg_got>>
db_vars == <<db_tables, db_engines>>
weather_vars == <<wx_api_key, wx_cache, wx_now, wx_returned>>
concurrent_vars == <<cc_box, cc_callers>>
settings_vars == <<st_start, st_heap, st_defaults, st_config_data, st_file, st_last, st_ops>>
wwidget_vars == <<ww_entry, ww_weather_location, ww_threads, ww_current_weather, ww_forecast_data, ww_after, ww_display, ww_shown, ww_auto_refresh, ww_timers, ww_toggles>>
editor_vars == <<ed_current_file, ed_modified_label, ed_edited, ed_timers, ed_events>>
tutorial_vars == <<tu_current_tutorial, tu_current_lesson, tu_lesson_title, tu_progress_label, tu_lesson_description, tu_last, tu_valid_load, tu_since_load>>

\* the state of the components a handler of another component leaves alone
other_vars == <<fmt_vars, config_vars, db_vars, weather_vars, concurrent_vars, settings_vars, wwidget_vars, editor_vars, tutorial_vars>>
not_fmt_vars == <<guard_vars, widget_vars, config_vars, db_vars, weather_vars, concurrent_vars, settings_vars, wwidget_vars, editor_vars, tutorial_vars>>
not_config_vars == <<guard_vars, widget_vars, fmt_vars, db_vars, weather_vars, concurrent_vars, settings_vars, wwidget_vars, editor_vars, tutorial_vars>>
not_db_vars == <<guard_vars, widget_vars, fmt_vars, config_vars, weather_vars, concurrent_vars, settings_vars, wwidget_vars, editor_vars, tutorial_vars>>
not_weather_vars == <<guard_vars, widget_vars, fmt_vars, config_vars, db_vars, concurrent_vars, settings_vars, wwidget_vars, editor_vars, tutorial_vars>>
not_concurrent_vars == <<guard_vars, widget_vars, fmt_vars, config_vars, db_vars, weather_vars, settings_vars, wwidget_vars, editor_vars, tutorial_vars>>
not_settings_vars == <<guard_vars, widget_vars, fmt_vars, config_vars, db_vars, weather_vars, concurrent_vars, wwidget_vars, editor_vars, tutorial_vars>>
not_wwidget_vars == <<guard_vars, widget_vars, fmt_vars, config_vars, db_vars, weather_vars, concurrent_vars, settings_vars, editor_vars, tutorial_vars>>
not_editor_vars == <<guard_vars, widget_vars, fmt_vars, config_vars, db_vars, weather_vars, concurrent_vars, settings_vars, wwidget_vars, tutorial_vars>>
not_tutorial_vars == <<guard_vars, widget_vars, fmt_vars, config_vars, db_vars, weather_vars, concurrent_vars, settings_vars, wwidget_vars, editor_vars>>

vars == <<guard_vars, widget_vars, other_vars>>

\* the components before they are exercised
FmtIdle ==
    /\ fmt_query = <<>>
    /\ fmt_results = <<>>
    /\ fmt_report = <<>>
    /\ fmt_raised = "pending"
    /\ fmt_earlier = <<>>

NoFile == [state |-> "absent", data |-> <<>>]
NoGet == [handle |-> 0]

ConfigIdle ==
    /\ cfg_instance = 0
    /\ cfg_objects = <<>>
    /\ cfg_handles = <<>>
    /\ cfg_file = NoFile
    /\ cfg_sets = <<>>
    /\ cfg_got = NoGet

NoTables == [created |-> FALSE, departments |-> <<>>, employees |-> <<>>, sales |-> <<>>]

DbIdle ==
    /\ db_tables = NoTables
    /\ db_engines = <<>>

NoCall == [called |-> FALSE]

WeatherIdle ==
    /\ wx_api_key = ""
    /\ wx_cache = <<>>
    /\ wx_now = 0
    /\ wx_returned = NoCall

\* the callers of the guard and of the formatter
Callers == {"a", "b"}
NotCalling == [op |-> "none"]

ConcurrentIdle ==
    /\ cc_box = <<>>
    /\ cc_callers = [c \in Callers |-> NotCalling]

\* no Config object, nothing on its heap
NoOperation == [op |-> "none"]
NotStarted == [file |-> NoFile, writable |-> FALSE]

SettingsIdle ==
    /\ st_start = NotStarted
    /\ st_heap = <<>>
    /\ st_defaults = <<>>
    /\ st_config_data = <<>>
    /\ st_file = NoFile
    /\ st_last = NoOperation
    /\ st_ops = 0

\* no WeatherWidget
NoData == [load |-> 0, location |-> <<>>]

WeatherWidgetIdle ==
    /\ ww_entry = <<>>
    /\ ww_weather_location = <<>>
    /\ ww_threads = <<>>
    /\ ww_current_weather = NoData
    /\ ww_forecast_data = NoData
    /\ ww_after = <<>>
    /\ ww_display = "idle"
    /\ ww_shown = [current |-> NoData, forecast |-> NoData]
    /\ ww_auto_refresh = FALSE
    /\ ww_timers = 0
    /\ ww_toggles = 0

\* no CodeEditorWidget
EditorIdle ==
    /\ ed_current_file = ""
    /\ ed_modified_label = <<>>
    /\ ed_edited = FALSE
    /\ ed_timers = 0
    /\ ed_events = 0

---------------------------------------------------------------------------
(* Bounds of the model.                                                    *)

\* a guard input is the concatenation of at most MaxChunks chunks
MaxChunks == 3
\* the text typed in the query box is at most MaxInputChunks chunks
MaxInputChunks == 2

---------------------------------------------------------------------------
(* Python str primitives on character sequences.                           *)

Lit(s) == [lit |-> s]
Txt(cs) == [txt |-> cs]

Min(S) == CHOOSE x \in S : \A y \in S : x <= y
Max(S) == CHOOSE x \in S : \A y \in S : x >= y

LowerChars == <<"a", "b", "c", "d", "e", "f", "g", "h", "i", "j", "k", "l", "m",
                "n", "o", "p", "q", "r", "s", "t", "u", "v", "w", "x", "y", "z">>
UpperChars == <<"A", "B", "C", "D", "E", "F", "G", "H", "I", "J", "K", "L", "M",
                "N", "O", "P", "Q", "R", "S", "T", "U", "V", "W", "X", "Y", "Z">>

\* characters str.strip() removes (str.isspace)
Whitespace == {" ", "\t", "\n", "\r", "\f"}

\* str.upper() of one character
UpperChar(c) ==
    IF \E i \in 1..Len(LowerChars) : LowerChars[i] = c
    THEN UpperChars[CHOOSE i \in 1..Len(LowerChars) : LowerChars[i] = c]
    ELSE c

\* str.lower() of one character
LowerChar(c) ==
    IF \E i \in 1..Len(UpperChars) : UpperChars[i] = c
    THEN LowerChars[CHOOSE i \in 1..Len(UpperChars) : UpperChars[i] = c]
    ELSE c

\* s.upper()
upper(s) == [i \in 1..Len(s) |-> UpperChar(s[i])]

\* s.lower()
lower(s) == [i \in 1..Len(s) |-> LowerChar(s[i])]

\* s.lstrip()
RECURSIVE lstrip(_)
lstrip(s) ==
    IF s # <<>> /\ Head(s) \in Whitespace THEN lstrip(Tail(s)) ELSE s

\* s.rstrip()
RECURSIVE rstrip(_)
rstrip(s) ==
    IF s # <<>> /\ s[Len(s)] \in Whitespace
    THEN rstrip(SubSeq(s, 1, Len(s) - 1))
    ELSE s

\* s.strip()
strip(s) == rstrip(lstrip(s))

\* sub in s
Contains(sub, s) ==
    \E i \in 1..(Len(s) - Len(sub) + 1) : SubSeq(s, i, i + Len(sub) - 1) = sub

\* s.startswith(prefix)
StartsWith(s, prefix) ==
    Len(s) >= Len(prefix) /\ SubSeq(s, 1, Len(prefix)) = prefix

\* s.endswith(suffix)
EndsWith(s, suffix) ==
    Len(s) >= Len(suffix) /\ SubSeq(s, Len(s) - Len(suffix) + 1, Len(s)) = suffix

---------------------------------------------------------------------------
(* SQLEngine.validate_sql_query                                            *)

dangerous_keywords ==
    << <<"D", "R", "O", "P">>,
       <<"D", "E", "L", "E", "T", "E">>,
       <<"U", "P", "D", "A", "T", "E">>,
       <<"I", "N", "S", "E", "R", "T">>,
       <<"A", "L", "T", "E", "R">>,
       <<"C", "R", "E", "A", "T", "E">>,
       <<"T", "R", "U", "N", "C", "A", "T", "E">> >>

SELECT == <<"S", "E", "L", "E", "C", "T">>
Semicolon == <<";">>

\* f"Query contains dangerous keyword: {keyword}"
DangerousMsg(keyword) == <<Lit("Query contains dangerous keyword: "), Txt(keyword)>>
OnlySelectMsg == <<Lit("Only SELECT queries are allowed in learning mode")>>
SemicolonMsg == <<Lit("Query should end with a semicolon (;)")>>
PassedMsg == <<Lit("Query validation passed")>>

\* the (bool, str) tuple the function returns
Verdict(ok, msg) == [is_valid |-> ok, message |-> msg]

\* the keyword that occurs first in the text wins, not the first of the list
validate_sql_query_text_order(query0) ==
    LET query == strip(query0)
        query_upper == upper(query)
        pos(i) == Min({p \in 1..Len(query_upper) :
                        StartsWith(SubSeq(query_upper, p, Len(query_upper)),
                                   dangerous_keywords[i])})
        hits == {i \in 1..Len(dangerous_keywords) :
                    Contains(dangerous_keywords[i], query_upper)}
    IN  IF hits # {}
        THEN Verdict(FALSE, DangerousMsg(dangerous_keywords[
                CHOOSE i \in hits : \A j \in hits : pos(i) <= pos(j)]))
        ELSE IF ~StartsWith(query_upper, SELECT)
        THEN Verdict(FALSE, OnlySelectMsg)
        ELSE IF ~EndsWith(rstrip(query), Semicolon)
        THEN Verdict(FALSE, SemicolonMsg)
        ELSE Verdict(TRUE, PassedMsg)

\* the query is not stripped before it is examined
validate_sql_query_no_strip(query0) ==
    LET query == query0
        query_upper == upper(query)
        hits == {i \in 1..Len(dangerous_keywords) :
                    Contains(dangerous_keywords[i], query_upper)}
    IN  IF hits # {}
        THEN Verdict(FALSE, DangerousMsg(dangerous_keywords[Min(hits)]))
        ELSE IF ~StartsWith(query_upper, SELECT)
        THEN Verdict(FALSE, OnlySelectMsg)
        ELSE IF ~EndsWith(rstrip(query), Semicolon)
        THEN Verdict(FALSE, SemicolonMsg)
        ELSE Verdict(TRUE, PassedMsg)

\* the semicolon is checked before the SELECT prefix
validate_sql_query_semicolon_first(query0) ==
    LET query == strip(query0)
        query_upper == upper(query)
        hits == {i \in 1..Len(dangerous_keywords) :
                    Contains(dangerous_keywords[i], query_upper)}
    IN  IF hits # {}
        THEN Verdict(FALSE, DangerousMsg(dangerous_keywords[Min(hits)]))
        ELSE IF ~EndsWith(rstrip(query), Semicolon)
        THEN Verdict(FALSE, SemicolonMsg)
        ELSE IF ~StartsWith(query_upper, SELECT)
        THEN Verdict(FALSE, OnlySelectMsg)
        ELSE Verdict(TRUE, PassedMsg)

\* the SELECT prefix is looked for in query, not in query_upper
validate_sql_query_case_sensitive(query0) ==
    LET query == strip(query0)
        query_upper == upper(query)
        hits == {i \in 1..Len(dangerous_keywords) :
                    Contains(dangerous_keywords[i], query_upper)}
    IN  IF hits # {}
        THEN Verdict(FALSE, DangerousMsg(dangerous_keywords[Min(hits)]))
        ELSE IF ~StartsWith(query, SELECT)
        THEN Verdict(FALSE, OnlySelectMsg)
        ELSE IF ~EndsWith(rstrip(query), Semicolon)
        THEN Verdict(FALSE, SemicolonMsg)
        ELSE Verdict(TRUE, PassedMsg)

\* the last character is read with query[-1], which raises IndexError on ''
validate_sql_query_index(query0) ==
    LET query == strip(query0)
        query_upper == upper(query)
        hits == {i \in 1..Len(dangerous_keywords) :
                    Contains(dangerous_keywords[i], query_upper)}
    IN  IF hits # {}
        THEN Verdict(FALSE, DangerousMsg(dangerous_keywords[Min(hits)]))
        ELSE IF query = <<>>
        THEN [raised |-> "IndexError"]
        ELSE IF query[Len(query)] # ";"
        THEN Verdict(FALSE, SemicolonMsg)
        ELSE IF ~StartsWith(query_upper, SELECT)
        THEN Verdict(FALSE, OnlySelectMsg)
        ELSE Verdict(TRUE, PassedMsg)

\* only the first statement, up to the first ';', is searched for keywords
validate_sql_query_first_statement(query0) ==
    LET query == strip(query0)
        query_upper == upper(query)
        semis == {p \in 1..Len(query_upper) : query_upper[p] = ";"}
        first == IF semis = {} THEN query_upper
                 ELSE SubSeq(query_upper, 1, Min(semis))
        hits == {i \in 1..Len(dangerous_keywords) :
                    Contains(dangerous_keywords[i], first)}
    IN  IF hits # {}
        THEN Verdict(FALSE, DangerousMsg(dangerous_keywords[Min(hits)]))
        ELSE IF ~StartsWith(query_upper, SELECT)
        THEN Verdict(FALSE, OnlySelectMsg)
        ELSE IF ~EndsWith(rstrip(query), Semicolon)
        THEN Verdict(FALSE, SemicolonMsg)
        ELSE Verdict(TRUE, PassedMsg)

validate_sql_query(query0) ==
    LET query == strip(query0)
        query_upper == upper(query)
        hits == {i \in 1..Len(dangerous_keywords) :
                    Contains(dangerous_keywords[i], query_upper)}
    IN  IF hits # {}
        THEN Verdict(FALSE, DangerousMsg(dangerous_keywords[Min(hits)]))
        ELSE IF ~StartsWith(query_upper, SELECT)
        THEN Verdict(FALSE, OnlySelectMsg)
        ELSE IF ~EndsWith(rstrip(query), Semicolon)
        THEN Verdict(FALSE, SemicolonMsg)
        ELSE Verdict(TRUE, PassedMsg)

---------------------------------------------------------------------------
(* Inputs of the guard: texts put together from chunks.                    *)

GuardChunks ==
    { <<" ">>, <<"\n">>, <<";">>, <<"x">>,
      <<"s", "e", "l", "e", "c", "t">>,
      <<"S", "e", "L", "e", "C", "t", " ", "1", ";">>,
      <<"D", "R", "O", "P">>,
      <<"d", "e", "l", "e", "t", "e">>,
      <<"U", "p", "d", "a", "t", "e">>,
      <<"i", "n", "s", "e", "r", "t">>,
      <<"A", "L", "T", "E", "R">>,
      <<"c", "r", "e", "a", "t", "e">>,
      <<"T", "r", "u", "n", "c", "a", "t", "e">> }

RECURSIVE ChunkTexts(_, _)
ChunkTexts(chunks, n) ==
    IF n = 0 THEN {<<>>}
    ELSE LET shorter == ChunkTexts(chunks, n - 1)
         IN  shorter \cup {t \o c : t \in shorter, c \in chunks}

GuardTexts == ChunkTexts(GuardChunks, MaxChunks)

\* no call of the guard has returned yet
NoVerdict == [is_valid |-> FALSE, message |-> <<>>]

---------------------------------------------------------------------------
(* Python values of a result row, str(value) and float(value).             *)

\* a cell of a row: text, an integer, or None (SQL NULL)
Str(cs) == [s |-> cs]
IntVal(n) == [n |-> n]
None == [null |-> TRUE]

Digits == <<"0", "1", "2", "3", "4", "5", "6", "7", "8", "9">>
DigitSet == {Digits[i] : i \in 1..Len(Digits)}

\* str(n) of an integer
RECURSIVE IntToChars(_)
IntToChars(n) ==
    IF n < 0 THEN <<"-">> \o IntToChars(-n)
    ELSE IF n < 10 THEN <<Digits[n + 1]>>
    ELSE IntToChars(n \div 10) \o <<Digits[(n % 10) + 1]>>

\* str(value)
PyStr(v) ==
    IF "s" \in DOMAIN v THEN v.s
    ELSE IF "n" \in DOMAIN v THEN IntToChars(v.n)
    ELSE <<"N", "o", "n", "e">>

\* digits, single underscores allowed between two digits
IsDigitRun(s) ==
    /\ s # <<>>
    /\ \A i \in 1..Len(s) : s[i] \in DigitSet \cup {"_"}
    /\ s[1] # "_" /\ s[Len(s)] # "_"
    /\ \A i \in 1..(Len(s) - 1) : ~(s[i] = "_" /\ s[i + 1] = "_")

IsMantissa(s) ==
    \/ IsDigitRun(s)
    \/ \E p \in 1..Len(s) :
          /\ s[p] = "."
          /\ LET a == SubSeq(s, 1, p - 1)
                 b == SubSeq(s, p + 1, Len(s))
             IN  /\ a = <<>> \/ IsDigitRun(a)
                 /\ b = <<>> \/ IsDigitRun(b)
                 /\ ~(a = <<>> /\ b = <<>>)

Unsigned(s) == IF s # <<>> /\ s[1] \in {"+", "-"} THEN Tail(s) ELSE s

\* the texts float() accepts
ParsesAsFloat(cs) ==
    LET body == Unsigned(lower(strip(cs)))
    IN  \/ body \in { <<"i", "n", "f">>, <<"n", "a", "n">>,
                      <<"i", "n", "f", "i", "n", "i", "t", "y">> }
        \/ IsMantissa(body)
        \/ \E p \in 1..Len(body) :
              /\ body[p] = "e"
              /\ IsMantissa(SubSeq(body, 1, p - 1))
              /\ IsDigitRun(Unsigned(SubSeq(body, p + 1, Len(body))))

\* float(value) returns (TRUE) or raises ValueError / TypeError (FALSE)
FloatSucceeds(v) ==
    IF "s" \in DOMAIN v THEN ParsesAsFloat(v.s)
    ELSE "n" \in DOMAIN v

---------------------------------------------------------------------------
(* Rows: a dict is the sequence of its <<key, value>> items, in key order. *)

\* list(row.keys())
Keys(row) == [i \in 1..Len(row) |-> row[i][1]]

\* row.get(col, '')
Get(row, col) ==
    IF \E i \in 1..Len(row) : row[i][1] = col
    THEN row[CHOOSE i \in 1..Len(row) : row[i][1] = col][2]
    ELSE Str(<<>>)

\* c * n
RECURSIVE Repeat(_, _)
Repeat(c, n) == IF n <= 0 THEN <<>> ELSE <<c>> \o Repeat(c, n - 1)

\* f"{s:<{w}}": padded on the right up to w, never cut
FormatLeft(s, w) == s \o Repeat(" ", w - Len(s))

\* sep.join(parts)
RECURSIVE Join(_, _)
Join(sep, parts) ==
    IF parts = <<>> THEN <<>>
    ELSE IF Len(parts) = 1 THEN parts[1]
    ELSE parts[1] \o sep \o Join(sep, Tail(parts))

\* results[:n]
Take(seq, n) == SubSeq(seq, 1, IF Len(seq) < n THEN Len(seq) ELSE n)

---------------------------------------------------------------------------
(* SQLTutorWidget.display_query_results and add_result_analysis            *)

WidthSampleRows == 10
MaxColWidth == 20
MaxDisplayRows == 100
RuleLength == 50

ColSep == <<" ", "|", " ">>
CommaSep == <<",", " ">>

\* the width is not capped
ColWidth_uncapped(results, col) ==
    LET sample == Take(results, WidthSampleRows)
        widest == Max({Len(PyStr(Get(sample[r], col))) : r \in 1..Len(sample)})
    IN  IF Len(col) >= widest THEN Len(col) ELSE widest

\* col_widths[col]
ColWidth(results, col) ==
    LET sample == Take(results, WidthSampleRows)
        widest == Max({Len(PyStr(Get(sample[r], col))) : r \in 1..Len(sample)})
        w == IF Len(col) >= widest THEN Len(col) ELSE widest
    IN  IF w <= MaxColWidth THEN w ELSE MaxColWidth

HeaderLine(results, columns) ==
    Join(ColSep, [c \in 1..Len(columns) |->
                    FormatLeft(columns[c], ColWidth(results, columns[c]))])

RowLine(results, columns, row) ==
    Join(ColSep, [c \in 1..Len(columns) |->
                    FormatLeft(PyStr(Get(row, columns[c])), ColWidth(results, columns[c]))])

EchoPart(query) == <<Lit("Executed Query:\n"), Txt(query), Lit("\n\n")>>

NoRowsPart ==
    << Lit("Results: No rows returned.\n\n"),
       Lit("This might mean:\n"),
       Lit("   - The query conditions didn't match any data\n"),
       Lit("   - The table is empty\n"),
       Lit("   - There might be a logical error in the query\n") >>

CountPart(results) ==
    <<Lit("Results: "), Txt(IntToChars(Len(results))), Lit(" row(s) returned\n\n")>>

HeaderPart(results, columns) ==
    LET header == HeaderLine(results, columns)
    IN  <<Txt(header), Lit("\n"), Txt(Repeat("-", Len(header))), Lit("\n")>>

\* the rows are written last first
RECURSIVE DataPart_reversed(_, _, _)
DataPart_reversed(results, columns, rows) ==
    IF rows = <<>> THEN <<>>
    ELSE DataPart_reversed(results, columns, Tail(rows))
            \o <<Txt(RowLine(results, columns, Head(rows))), Lit("\n")>>

RECURSIVE DataPart(_, _, _)
DataPart(results, columns, rows) ==
    IF rows = <<>> THEN <<>>
    ELSE <<Txt(RowLine(results, columns, Head(rows))), Lit("\n")>>
            \o DataPart(results, columns, Tail(rows))

\* the note is written from 100 rows on, not from 101 on
MorePart_at_least(results) ==
    IF Len(results) >= MaxDisplayRows
    THEN <<Lit("\n... and "), Txt(IntToChars(Len(results) - MaxDisplayRows)),
           Lit(" more rows\n")>>
    ELSE <<>>

MorePart(results) ==
    IF Len(results) > MaxDisplayRows
    THEN <<Lit("\n... and "), Txt(IntToChars(Len(results) - MaxDisplayRows)),
           Lit(" more rows\n")>>
    ELSE <<>>

\* columns kept by a filter, in order
RECURSIVE Filter(_, _)
Filter(columns, keep) ==
    IF columns = <<>> THEN <<>>
    ELSE (IF Head(columns) \in keep THEN <<Head(columns)>> ELSE <<>>)
            \o Filter(Tail(columns), keep)

\* a column is numeric when the value of any row parses
numeric_cols_any_row(results, columns) ==
    Filter(columns, {columns[c] : c \in {k \in 1..Len(columns) :
                        \E r \in 1..Len(results) :
                            FloatSucceeds(Get(results[r], columns[k]))}})

numeric_cols(results, columns) ==
    Filter(columns, {columns[c] : c \in {k \in 1..Len(columns) :
                        FloatSucceeds(Get(results[1], columns[k]))}})

\* the name is searched as written, without lower()
date_cols_case_sensitive(columns) ==
    Filter(columns, {columns[c] : c \in {k \in 1..Len(columns) :
                        \/ Contains(<<"d", "a", "t", "e">>, columns[k])
                        \/ Contains(<<"t", "i", "m", "e">>, columns[k])}})

date_cols(columns) ==
    Filter(columns, {columns[c] : c \in {k \in 1..Len(columns) :
                        \/ Contains(<<"d", "a", "t", "e">>, lower(columns[k]))
                        \/ Contains(<<"t", "i", "m", "e">>, lower(columns[k]))}})

\* the suggestions are written from one row on
add_result_analysis_from_one_row(results, columns) ==
    << Lit("\n"), Txt(Repeat("=", RuleLength)), Lit("\n"),
       Lit("Result Analysis:\n\n"),
       Lit("- Total rows: "), Txt(IntToChars(Len(results))), Lit("\n"),
       Lit("- Columns: "), Txt(IntToChars(Len(columns))), Lit("\n"),
       Lit("- Column names: "), Txt(Join(CommaSep, columns)), Lit("\n\n") >>
    \o (IF results = <<>> THEN <<>>
        ELSE <<Lit("Learning Notes:\n")>>
          \o (IF numeric_cols(results, columns) = <<>> THEN <<>>
              ELSE << Lit("- Numeric columns detected: "),
                      Txt(Join(CommaSep, numeric_cols(results, columns))), Lit("\n"),
                      Lit("  Try using functions like SUM(), AVG(), MIN(), MAX() on these!\n") >>)
          \o (IF date_cols(columns) = <<>> THEN <<>>
              ELSE << Lit("- Date columns: "),
                      Txt(Join(CommaSep, date_cols(columns))), Lit("\n"),
                      Lit("  Try using date functions and ORDER BY for time-based analysis!\n") >>)
          \o <<Lit("\nTry these next:\n")>>
          \o (IF Len(results) >= 1
              THEN << Lit("- Add WHERE clauses to filter specific data\n"),
                      Lit("- Use ORDER BY to sort the results\n"),
                      Lit("- Try GROUP BY for data aggregation\n") >>
              ELSE <<>>))

add_result_analysis(results, columns) ==
    << Lit("\n"), Txt(Repeat("=", RuleLength)), Lit("\n"),
       Lit("Result Analysis:\n\n"),
       Lit("- Total rows: "), Txt(IntToChars(Len(results))), Lit("\n"),
       Lit("- Columns: "), Txt(IntToChars(Len(columns))), Lit("\n"),
       Lit("- Column names: "), Txt(Join(CommaSep, columns)), Lit("\n\n") >>
    \o (IF results = <<>> THEN <<>>
        ELSE <<Lit("Learning Notes:\n")>>
          \o (IF numeric_cols(results, columns) = <<>> THEN <<>>
              ELSE << Lit("- Numeric columns detected: "),
                      Txt(Join(CommaSep, numeric_cols(results, columns))), Lit("\n"),
                      Lit("  Try using functions like SUM(), AVG(), MIN(), MAX() on these!\n") >>)
          \o (IF date_cols(columns) = <<>> THEN <<>>
              ELSE << Lit("- Date columns: "),
                      Txt(Join(CommaSep, date_cols(columns))), Lit("\n"),
                      Lit("  Try using date functions and ORDER BY for time-based analysis!\n") >>)
          \o <<Lit("\nTry these next:\n")>>
          \o (IF Len(results) > 1
              THEN << Lit("- Add WHERE clauses to filter specific data\n"),
                      Lit("- Use ORDER BY to sort the results\n"),
                      Lit("- Try GROUP BY for data aggregation\n") >>
              ELSE <<>>))

\* the analysis is given the displayed rows, not all rows
TablePart_displayed_rows(results) ==
    LET columns == Keys(results[1])
    IN  HeaderPart(results, columns)
            \o DataPart(results, columns, Take(results, MaxDisplayRows))
            \o MorePart(results)
            \o add_result_analysis(Take(results, MaxDisplayRows), columns)

\* the table and the analysis of a non-empty result
TablePart(results) ==
    LET columns == Keys(results[1])
    IN  HeaderPart(results, columns)
            \o DataPart(results, columns, Take(results, MaxDisplayRows))
            \o MorePart(results)
            \o add_result_analysis(results, columns)

\* the early return of the empty case is missing: the count line follows
display_query_results_no_return(text0, query, results) ==
    LET cleared == <<>>
    IN  cleared \o EchoPart(query)
            \o (IF results = <<>> THEN NoRowsPart ELSE <<>>)
            \o CountPart(results)
            \o (IF results # <<>> THEN TablePart(results) ELSE <<>>)

\* the box is not emptied first: the report is written after what it held
display_query_results_appending(text0, query, results) ==
    LET cleared == text0
    IN  IF results = <<>>
        THEN cleared \o EchoPart(query) \o NoRowsPart
        ELSE cleared \o EchoPart(query) \o CountPart(results) \o TablePart(results)

\* text0 is the content of results_text before; the result is its content after
display_query_results(text0, query, results) ==
    LET cleared == <<>>
    IN  IF results = <<>>
        THEN cleared \o EchoPart(query) \o NoRowsPart
        ELSE cleared \o EchoPart(query) \o CountPart(results) \o TablePart(results)

\* float(value): "none" when it returns, else the exception it raises
FloatRaises(v) ==
    IF "s" \in DOMAIN v THEN (IF ParsesAsFloat(v.s) THEN "none" ELSE "ValueError")
    ELSE IF "n" \in DOMAIN v THEN "none"
    ELSE "TypeError"

\* only ValueError is caught around float()
CaughtByAnalysis_value_error_only == {"ValueError"}

\* except (ValueError, TypeError): continue
CaughtByAnalysis == {"ValueError", "TypeError"}

\* the exception that leaves add_result_analysis ("none" when it returns)
add_result_analysis_raises(results, columns) ==
    IF results = <<>> THEN "none"
    ELSE LET escaping == {c \in 1..Len(columns) :
                            FloatRaises(Get(results[1], columns[c]))
                                \notin CaughtByAnalysis \cup {"none"}}
         IN  IF escaping = {} THEN "none"
             ELSE FloatRaises(Get(results[1], columns[Min(escaping)]))

\* the exception that leaves display_query_results ("none" when it returns)
display_query_results_raises(results) ==
    IF results = <<>> THEN "none"
    ELSE add_result_analysis_raises(results, Keys(results[1]))

\* what was written when add_result_analysis stopped in the numeric loop
WrittenBeforeNumericLoop(report) ==
    SubSeq(report, 1,
           CHOOSE p \in 1..Len(report) : report[p] = Lit("Learning Notes:\n"))

---------------------------------------------------------------------------
(* The database service behind SQLEngine.execute_query.                    *)

id == <<"i", "d">>
name == <<"n", "a", "m", "e">>
hire_date == <<"h", "i", "r", "e", "_", "d", "a", "t", "e">>

\* result sets sqlite may hand back for an accepted query
ResultSets ==
    { <<>>,
      << << <<id, IntVal(1)>>, <<name, Str(<<"A", "l">>)>> >> >>,
      << << <<id, IntVal(7)>>, <<hire_date, None>> >>,
         << <<id, IntVal(12)>>, <<hire_date, Str(<<"2", "0", "2", "0">>)>> >> >> }

\* cursor.execute either yields rows or raises (no such table, syntax error)
DbOutcomes ==
    {[error |-> FALSE, rows |-> r] : r \in ResultSets}
        \cup {[error |-> TRUE, rows |-> <<>>]}

\* SQLEngine.execute_query: what it returns, and whether it raises
SQLEngine_execute_query(query, outcome) ==
    IF outcome.error
    THEN [raised |-> FALSE, results |-> <<>>]        \* except Exception: return []
    ELSE [raised |-> FALSE, results |-> outcome.rows]

---------------------------------------------------------------------------
(* SQLTutorWidget: the tutorials and their example queries.                *)
(* load_tutorial and load_example_query (src/gui/sql_tutor.py) over the    *)
(* list SQLEngine.get_sql_tutorials returns (src/database/sql_engine.py).  *)
(* Python indexes from 0, a sequence from 1.                               *)

basic_select_query_1 ==
    << "S", "E", "L", "E", "C", "T", " ", "*", " ", "F", "R", "O",
       "M", " ", "e", "m", "p", "l", "o", "y", "e", "e", "s", ";" >>

basic_select_query_2 ==
    << "S", "E", "L", "E", "C", "T", " ", "f", "i", "r", "s", "t",
       "_", "n", "a", "m", "e", ",", " ", "l", "a", "s", "t", "_",
       "n", "a", "m", "e", " ", "F", "R", "O", "M", " ", "e", "m",
       "p", "l", "o", "y", "e", "e", "s", ";" >>

basic_select_query_3 ==
    << "S", "E", "L", "E", "C", "T", " ", "*", " ", "F", "R", "O",
       "M", " ", "e", "m", "p", "l", "o", "y", "e", "e", "s", " ",
       "W", "H", "E", "R", "E", " ", "d", "e", "p", "a", "r", "t",
       "m", "e", "n", "t", " ", "=", " ", "\"", "E", "n", "g", "i",
       "n", "e", "e", "r", "i", "n", "g", "\"", ";" >>

filtering_sorting_query_1 ==
    << "S", "E", "L", "E", "C", "T", " ", "*", " ", "F", "R", "O",
       "M", " ", "e", "m", "p", "l", "o", "y", "e", "e", "s", " ",
       "W", "H", "E", "R", "E", " ", "s", "a", "l", "a", "r", "y",
       " ", ">", " ", "8", "0", "0", "0", "0", ";" >>

filtering_sorting_query_2 ==
    << "S", "E", "L", "E", "C", "T", " ", "*", " ", "F", "R", "O",
       "M", " ", "e", "m", "p", "l", "o", "y", "e", "e", "s", " ",
       "O", "R", "D", "E", "R", " ", "B", "Y", " ", "s", "a", "l",
       "a", "r", "y", " ", "D", "E", "S", "C", ";" >>

filtering_sorting_query_3 ==
    << "S", "E", "L", "E", "C", "T", " ", "*", " ", "F", "R", "O",
       "M", " ", "e", "m", "p", "l", "o", "y", "e", "e", "s", " ",
       "O", "R", "D", "E", "R", " ", "B", "Y", " ", "h", "i", "r",
       "e", "_", "d", "a", "t", "e", " ", "L", "I", "M", "I", "T",
       " ", "5", ";" >>

joins_query_1 ==
    << "S", "E", "L", "E", "C", "T", " ", "e", ".", "f", "i", "r",
       "s", "t", "_", "n", "a", "m", "e", ",", " ", "e", ".", "l",
       "a", "s", "t", "_", "n", "a", "m", "e", ",", " ", "s", ".",
       "p", "r", "o", "d", "u", "c", "t", "_", "n", "a", "m", "e",
       ",", " ", "s", ".", "s", "a", "l", "e", "_", "a", "m", "o",
       "u", "n", "t", "\n", " ", " ", " ", " ", " ", " ", " ", " ",
       " ", " ", " ", " ", " ", " ", " ", " ", " ", " ", " ", " ",
       " ", " ", " ", " ", " ", " ", " ", " ", " ", " ", " ", " ",
       " ", " ", " ", "F", "R", "O", "M", " ", "e", "m", "p", "l",
       "o", "y", "e", "e", "s", " ", "e", "\n", " ", " ", " ", " ",
       " ", " ", " ", " ", " ", " ", " ", " ", " ", " ", " ", " ",
       " ", " ", " ", " ", " ", " ", " ", " ", " ", " ", " ", " ",
       " ", " ", " ", " ", " ", " ", " ", "J", "O", "I", "N", " ",
       "s", "a", "l", "e", "s", " ", "s", " ", "O", "N", " ", "e",
       ".", "e", "m", "p", "l", "o", "y", "e", "e", "_", "i", "d",
       " ", "=", " ", "s", ".", "e", "m", "p", "l", "o", "y", "e",
       "e", "_", "i", "d", ";" >>

joins_query_2 ==
    << "S", "E", "L", "E", "C", "T", " ", "e", ".", "f", "i", "r",
       "s", "t", "_", "n", "a", "m", "e", ",", " ", "e", ".", "l",
       "a", "s", "t", "_", "n", "a", "m", "e", ",", " ", "m", ".",
       "f", "i", "r", "s", "t", "_", "n", "a", "m", "e", " ", "a",
       "s", " ", "m", "a", "n", "a", "g", "e", "r", "_", "n", "a",
       "m", "e", "\n", " ", " ", " ", " ", " ", " ", " ", " ", " ",
       " ", " ", " ", " ", " ", " ", " ", " ", " ", " ", " ", " ",
       " ", " ", " ", " ", " ", " ", " ", " ", " ", " ", " ", " ",
       " ", " ", "F", "R", "O", "M", " ", "e", "m", "p", "l", "o",
       "y", "e", "e", "s", " ", "e", "\n", " ", " ", " ", " ", " ",
       " ", " ", " ", " ", " ", " ", " ", " ", " ", " ", " ", " ",
       " ", " ", " ", " ", " ", " ", " ", " ", " ", " ", " ", " ",
       " ", " ", " ", " ", " ", " ", "L", "E", "F", "T", " ", "J",
       "O", "I", "N", " ", "e", "m", "p", "l", "o", "y", "e", "e",
       "s", " ", "m", " ", "O", "N", " ", "e", ".", "m", "a", "n",
       "a", "g", "e", "r", "_", "i", "d", " ", "=", " ", "m", ".",
       "e", "m", "p", "l", "o", "y", "e", "e", "_", "i", "d", ";" >>

aggregation_query_1 ==
    << "S", "E", "L", "E", "C", "T", " ", "C", "O", "U", "N", "T",
       "(", "*", ")", " ", "a", "s", " ", "t", "o", "t", "a", "l",
       "_", "e", "m", "p", "l", "o", "y", "e", "e", "s", " ", "F",
       "R", "O", "M", " ", "e", "m", "p", "l", "o", "y", "e", "e",
       "s", ";" >>

aggregation_query_2 ==
    << "S", "E", "L", "E", "C", "T", " ", "d", "e", "p", "a", "r",
       "t", "m", "e", "n", "t", ",", " ", "A", "V", "G", "(", "s",
       "a", "l", "a", "r", "y", ")", " ", "a", "s", " ", "a", "v",
       "g", "_", "s", "a", "l", "a", "r", "y", " ", "F", "R", "O",
       "M", " ", "e", "m", "p", "l", "o", "y", "e", "e", "s", " ",
       "G", "R", "O", "U", "P", " ", "B", "Y", " ", "d", "e", "p",
       "a", "r", "t", "m", "e", "n", "t", ";" >>

aggregation_query_3 ==
    << "S", "E", "L", "E", "C", "T", " ", "S", "U", "M", "(", "s",
       "a", "l", "e", "_", "a", "m", "o", "u", "n", "t", ")", " ",
       "a", "s", " ", "t", "o", "t", "a", "l", "_", "s", "a", "l",
       "e", "s", " ", "F", "R", "O", "M", " ", "s", "a", "l", "e",
       "s", ";" >>

advanced_query_1 ==
    << "S", "E", "L", "E", "C", "T", " ", "*", " ", "F", "R", "O",
       "M", " ", "e", "m", "p", "l", "o", "y", "e", "e", "s", " ",
       "\n", " ", " ", " ", " ", " ", " ", " ", " ", " ", " ", " ",
       " ", " ", " ", " ", " ", " ", " ", " ", " ", " ", " ", " ",
       " ", " ", " ", " ", " ", " ", " ", " ", " ", " ", " ", " ",
       "W", "H", "E", "R", "E", " ", "s", "a", "l", "a", "r", "y",
       " ", ">", " ", "(", "S", "E", "L", "E", "C", "T", " ", "A",
       "V", "G", "(", "s", "a", "l", "a", "r", "y", ")", " ", "F",
       "R", "O", "M", " ", "e", "m", "p", "l", "o", "y", "e", "e",
       "s", ")", ";" >>

advanced_query_2 ==
    << "S", "E", "L", "E", "C", "T", " ", "e", ".", "f", "i", "r",
       "s", "t", "_", "n", "a", "m", "e", ",", " ", "e", ".", "l",
       "a", "s", "t", "_", "n", "a", "m", "e", ",", " ", "\n", " ",
       " ", " ", " ", " ", " ", " ", " ", " ", " ", " ", " ", " ",
       " ", " ", " ", " ", " ", " ", " ", " ", " ", " ", " ", " ",
       " ", " ", " ", " ", " ", " ", " ", " ", " ", " ", " ", " ",
       " ", " ", " ", " ", " ", "C", "O", "U", "N", "T", "(", "s",
       ".", "s", "a", "l", "e", "_", "i", "d", ")", " ", "a", "s",
       " ", "t", "o", "t", "a", "l", "_", "s", "a", "l", "e", "s",
       "\n", " ", " ", " ", " ", " ", " ", " ", " ", " ", " ", " ",
       " ", " ", " ", " ", " ", " ", " ", " ", " ", " ", " ", " ",
       " ", " ", " ", " ", " ", " ", " ", " ", " ", " ", " ", " ",
       "F", "R", "O", "M", " ", "e", "m", "p", "l", "o", "y", "e",
       "e", "s", " ", "e", "\n", " ", " ", " ", " ", " ", " ", " ",
       " ", " ", " ", " ", " ", " ", " ", " ", " ", " ", " ", " ",
       " ", " ", " ", " ", " ", " ", " ", " ", " ", " ", " ", " ",
       " ", " ", " ", " ", "L", "E", "F", "T", " ", "J", "O", "I",
       "N", " ", "s", "a", "l", "e", "s", " ", "s", " ", "O", "N",
       " ", "e", ".", "e", "m", "p", "l", "o", "y", "e", "e", "_",
       "i", "d", " ", "=", " ", "s", ".", "e", "m", "p", "l", "o",
       "y", "e", "e", "_", "i", "d", "\n", " ", " ", " ", " ", " ",
       " ", " ", " ", " ", " ", " ", " ", " ", " ", " ", " ", " ",
       " ", " ", " ", " ", " ", " ", " ", " ", " ", " ", " ", " ",
       " ", " ", " ", " ", " ", " ", "G", "R", "O", "U", "P", " ",
       "B", "Y", " ", "e", ".", "e", "m", "p", "l", "o", "y", "e",
       "e", "_", "i", "d", "\n", " ", " ", " ", " ", " ", " ", " ",
       " ", " ", " ", " ", " ", " ", " ", " ", " ", " ", " ", " ",
       " ", " ", " ", " ", " ", " ", " ", " ", " ", " ", " ", " ",
       " ", " ", " ", " ", "O", "R", "D", "E", "R", " ", "B", "Y",
       " ", "t", "o", "t", "a", "l", "_", "s", "a", "l", "e", "s",
       " ", "D", "E", "S", "C", ";" >>

\* SQLEngine.get_sql_tutorials
get_sql_tutorials ==
    << [id |-> "basic_select",
       title |-> "Basic SELECT Statements",
       description |-> "Learn how to query data from tables",
       difficulty |-> "Beginner",
       examples |->
         << [query |-> basic_select_query_1,
            explanation |-> "Select all columns from the employees table"],
            [query |-> basic_select_query_2,
            explanation |-> "Select specific columns"],
            [query |-> basic_select_query_3,
            explanation |-> "Filter rows with WHERE clause"] >>],
       [id |-> "filtering_sorting",
       title |-> "Filtering and Sorting Data",
       description |-> "Use WHERE, ORDER BY, and LIMIT clauses",
       difficulty |-> "Beginner",
       examples |->
         << [query |-> filtering_sorting_query_1,
            explanation |-> "Filter by numeric condition"],
            [query |-> filtering_sorting_query_2,
            explanation |-> "Sort by salary in descending order"],
            [query |-> filtering_sorting_query_3,
            explanation |-> "Get the 5 earliest hired employees"] >>],
       [id |-> "joins",
       title |-> "JOIN Operations",
       description |-> "Combine data from multiple tables",
       difficulty |-> "Intermediate",
       examples |->
         << [query |-> joins_query_1,
            explanation |-> "Inner join to get employee sales data"],
            [query |-> joins_query_2,
            explanation |-> "Self-join to get employee and manager names"] >>],
       [id |-> "aggregation",
       title |-> "Aggregate Functions",
       description |-> "Use COUNT, SUM, AVG, MIN, MAX",
       difficulty |-> "Intermediate",
       examples |->
         << [query |-> aggregation_query_1,
            explanation |-> "Count total number of employees"],
            [query |-> aggregation_query_2,
            explanation |-> "Average salary by department"],
            [query |-> aggregation_query_3,
            explanation |-> "Total sales amount"] >>],
       [id |-> "advanced",
       title |-> "Advanced Queries",
       description |-> "Subqueries, window functions, and complex operations",
       difficulty |-> "Advanced",
       examples |->
         << [query |-> advanced_query_1,
            explanation |-> "Employees with above-average salary using subquery"],
            [query |-> advanced_query_2,
            explanation |-> "Employee sales performance ranking"] >>] >>

\* a Tk text widget ignores insert and delete while its state is disabled
TextDelete(widget) ==
    IF widget.state = "disabled" THEN widget ELSE [widget EXCEPT !.content = <<>>]
TextInsert(widget, text) ==
    IF widget.state = "disabled" THEN widget
    ELSE [widget EXCEPT !.content = text \o @]

\* current_lesson is left as it was
load_tutorial_keeping_lesson(self, tutorials, tutorial_index) ==
    IF tutorial_index >= Len(tutorials) THEN self
    ELSE LET tutorial == tutorials[tutorial_index + 1]
         IN  [self EXCEPT
                !.current_tutorial = tutorial_index,
                !.lesson_title = <<Lit(tutorial.title)>>,
                !.results_text = << Lit("Tutorial loaded: "), Lit(tutorial.title),
                                    Lit("\n\nClick 'Example' to see sample queries, or write your own SQL query below.\n\nTip: Press Ctrl+Enter to execute queries quickly!") >>]

\* SQLTutorWidget.load_tutorial
load_tutorial(self, tutorials, tutorial_index) ==
    IF tutorial_index >= Len(tutorials) THEN self
    ELSE LET tutorial == tutorials[tutorial_index + 1]
             description_text ==
                 << Lit("Difficulty: "), Lit(tutorial.difficulty), Lit("\n\n"),
                    Lit(tutorial.description), Lit("\n\nExamples available: "),
                    Txt(IntToChars(Len(tutorial.examples))) >>
         IN  [self EXCEPT
                !.current_tutorial = tutorial_index,
                !.lesson_title = <<Lit(tutorial.title)>>,
                !.progress_label =
                    << Lit("Lesson "), Txt(IntToChars(tutorial_index + 1)),
                       Lit(" of "), Txt(IntToChars(Len(tutorials))) >>,
                !.lesson_description =
                    [TextInsert(TextDelete(@), description_text) EXCEPT !.state = "disabled"],
                !.results_text =
                    << Lit("Tutorial loaded: "), Lit(tutorial.title),
                       Lit("\n\nClick 'Example' to see sample queries, or write your own SQL query below.\n\nTip: Press Ctrl+Enter to execute queries quickly!") >>,
                !.current_lesson = 0]

\* SQLTutorWidget.load_example_query
load_example_query(self, tutorials) ==
    IF self.current_tutorial >= Len(tutorials) THEN self
    ELSE LET examples == tutorials[self.current_tutorial + 1].examples
         IN  IF examples = <<>>
             THEN [self EXCEPT !.calls = <<[op |-> "showinfo"]>>]
             ELSE LET example == examples[(self.current_lesson % Len(examples)) + 1]
                  IN  [self EXCEPT
                         !.query_input = example.query,
                         !.validation_label = <<Lit("Example: "), Lit(example.explanation)>>,
                         !.current_lesson = (self.current_lesson + 1) % Len(examples)]

\* the tutorial panel when __init__ calls load_tutorial(0)
TutorialPanelCreated ==
    [current_tutorial |-> 0, current_lesson |-> 0,
     lesson_title |-> <<Lit("Getting Started with SQL")>>,
     progress_label |-> <<Lit("Lesson 1 of 5")>>,
     lesson_description |-> [content |-> <<>>, state |-> "normal"],
     query_input |-> <<>>,
     validation_label |-> <<Lit("Ready to execute SQL queries")>>,
     results_text |-> <<>>, calls |-> <<>>]

\* the tutorial panel after __init__
TutorialIdle ==
    LET made == load_tutorial(TutorialPanelCreated, get_sql_tutorials, 0)
    IN  /\ tu_current_tutorial = made.current_tutorial
        /\ tu_current_lesson = made.current_lesson
        /\ tu_lesson_title = made.lesson_title
        /\ tu_progress_label = made.progress_label
        /\ tu_lesson_description = made.lesson_description
        /\ tu_last = [op |-> "__init__"]
        /\ tu_valid_load = 0
        /\ tu_since_load = 0

OtherIdle == FmtIdle /\ ConfigIdle /\ DbIdle /\ WeatherIdle /\ ConcurrentIdle /\ SettingsIdle /\ WeatherWidgetIdle /\ EditorIdle /\ TutorialIdle

---------------------------------------------------------------------------
(* SQLTutorWidget: the query box, the handlers.                            *)

InputChunks ==
    { <<" ">>, <<"x">>,
      <<"d", "r", "o", "p">>,
      <<"S", "e", "l", "e", "c", "t", " ", "1", ";">>,
      <<";">> }

InputTexts == ChunkTexts(InputChunks, MaxInputChunks)

\* textbox.get("1.0", "end"): Tk appends a newline to the content
TkGet(content) == content \o <<"\n">>

ValidateCall(query, verdict) ==
    [op |-> "validate_sql_query", query |-> query, returned |-> verdict]
ExecuteCall(query, outcome) ==
    [op |-> "execute_query", query |-> query, db_error |-> outcome.error]
DisplayCall(query, results) ==
    [op |-> "display_query_results", query |-> query, rows |-> Len(results)]

WidgetInit ==
    /\ query_input = <<>>
    /\ validation_label = <<Lit("Ready to execute SQL queries")>>
    /\ results_text =      \* load_tutorial(0), the last step of __init__
          << Lit("Tutorial loaded: "), Lit("Basic SELECT Statements"),
             Lit("\n\nClick 'Example' to see sample queries, or write your own SQL query below.\n\nTip: Press Ctrl+Enter to execute queries quickly!") >>
    /\ calls = <<>>
    /\ last_handler = "init"

\* the user types into the query box
TypeQuery ==
    \E c \in InputChunks :
        /\ query_input \o c \in InputTexts
        /\ query_input' = query_input \o c
        /\ last_handler' = "edit"
        /\ UNCHANGED <<validation_label, results_text, calls, guard_vars, other_vars>>

\* the verdict is ignored: the query is executed whatever the guard said
execute_query_unguarded ==
    \E outcome \in DbOutcomes :
        LET query == strip(TkGet(query_input))
            verdict == validate_sql_query(query)
            got == SQLEngine_execute_query(query, outcome)
        IN  /\ last_handler' = "execute_query"
            /\ UNCHANGED <<query_input, guard_vars, other_vars>>
            /\ IF query = <<>>
               THEN /\ validation_label' = <<Lit("Please enter a SQL query")>>
                    /\ calls' = <<>>
                    /\ UNCHANGED results_text
               ELSE /\ calls' = <<ValidateCall(query, verdict), ExecuteCall(query, outcome),
                                  DisplayCall(query, got.results)>>
                    /\ results_text' = display_query_results(results_text, query, got.results)
                    /\ validation_label' =
                          << Lit("Query executed successfully - "),
                             Txt(IntToChars(Len(got.results))), Lit(" rows returned") >>

\* the label of a rejected query is a fixed text, not the guard's reason
execute_query_generic_label ==
    \E outcome \in DbOutcomes :
        LET query == strip(TkGet(query_input))
            verdict == validate_sql_query(query)
            got == SQLEngine_execute_query(query, outcome)
        IN  /\ last_handler' = "execute_query"
            /\ UNCHANGED <<query_input, guard_vars, other_vars>>
            /\ IF query = <<>>
               THEN /\ validation_label' = <<Lit("Please enter a SQL query")>>
                    /\ calls' = <<>>
                    /\ UNCHANGED results_text
               ELSE IF ~verdict.is_valid
               THEN /\ validation_label' = <<Lit("(x) "), Lit("Invalid query")>>
                    /\ calls' = <<ValidateCall(query, verdict)>>
                    /\ UNCHANGED results_text
               ELSE /\ calls' = <<ValidateCall(query, verdict), ExecuteCall(query, outcome),
                                  DisplayCall(query, got.results)>>
                    /\ results_text' = display_query_results(results_text, query, got.results)
                    /\ validation_label' =
                          << Lit("Query executed successfully - "),
                             Txt(IntToChars(Len(got.results))), Lit(" rows returned") >>

\* SQLTutorWidget.execute_query
execute_query ==
    \E outcome \in DbOutcomes :
        LET query == strip(TkGet(query_input))
            verdict == validate_sql_query(query)
            got == SQLEngine_execute_query(query, outcome)
        IN  /\ last_handler' = "execute_query"
            /\ UNCHANGED <<query_input, guard_vars, other_vars>>
            /\ IF query = <<>>
               THEN /\ validation_label' = <<Lit("Please enter a SQL query")>>
                    /\ calls' = <<>>
                    /\ UNCHANGED results_text
               ELSE IF ~verdict.is_valid
               THEN /\ validation_label' = <<Lit("(x) ")>> \o verdict.message
                    /\ calls' = <<ValidateCall(query, verdict)>>
                    /\ UNCHANGED results_text
               ELSE IF got.raised
               THEN \* except Exception as e (Lit("str(e)") stands for the text of e)
                    /\ calls' = <<ValidateCall(query, verdict), ExecuteCall(query, outcome)>>
                    /\ validation_label' = <<Lit("(x) Query error: "), Lit("str(e)")>>
                    /\ results_text' =
                          << Lit("Query Error:\n"), Lit("str(e)"),
                             Lit("\n\nPlease check your SQL syntax and try again.") >>
               ELSE /\ calls' = <<ValidateCall(query, verdict), ExecuteCall(query, outcome),
                                  DisplayCall(query, got.results)>>
                    /\ results_text' = display_query_results(results_text, query, got.results)
                    /\ validation_label' =
                          << Lit("Query executed successfully - "),
                             Txt(IntToChars(Len(got.results))), Lit(" rows returned") >>

\* SQLTutorWidget.clear_query
clear_query ==
    /\ query_input' = <<>>
    /\ validation_label' = <<Lit("Query cleared - Ready for new input")>>
    /\ calls' = <<>>
    /\ last_handler' = "clear_query"
    /\ UNCHANGED <<results_text, guard_vars, other_vars>>

Init ==
    /\ guard_query = <<>>
    /\ guard_verdict = NoVerdict
    /\ WidgetInit
    /\ OtherIdle

Next ==
    \/ TypeQuery
    \/ execute_query
    \/ clear_query

Spec == Init /\ [][Next]_vars

---------------------------------------------------------------------------
(* The guard called directly on each input text.                           *)

InitGuard ==
    /\ guard_query \in GuardTexts
    /\ guard_verdict = NoVerdict
    /\ WidgetInit
    /\ OtherIdle

ValidateSqlQuery ==
    /\ guard_verdict = NoVerdict
    /\ guard_verdict' = validate_sql_query(guard_query)
    /\ UNCHANGED <<guard_query, widget_vars, other_vars>>

NextGuard == ValidateSqlQuery

SpecGuard == InitGuard /\ [][NextGuard]_vars

---------------------------------------------------------------------------
(* display_query_results called directly on each result set.               *)

\* a result set has at most MaxRows rows
MaxRows == 102

Created_TIME == <<"C", "r", "e", "a", "t", "e", "d", "_", "T", "I", "M", "E">>
UPDATED == <<"U", "P", "D", "A", "T", "E", "D">>
lifetime == <<"l", "i", "f", "e", "t", "i", "m", "e">>
zz == <<"z", "z">>
LongText == <<"a", "b", "c", "d", "e", "f", "g", "h", "i", "j", "k",
              "l", "m", "n", "o", "p", "q", "r", "s", "t", "u", "v">>

\* the first rows of the result sets: uniform rows, rows that lack keys of
\* the first row or bring keys of their own, texts float() accepts or not,
\* a first row without columns, date and time names in any case
FmtHeadRows ==
    { << << <<id, IntVal(1)>>, <<name, Str(<<"A", "l">>)>> >> >>,
      << << <<name, Str(<<"a", "b", "c">>)>>, <<hire_date, None>>,
            <<Created_TIME, Str(<<"4", "2">>)>> >>,
         << <<name, Str(<<"4", "2">>)>> >>,
         << <<zz, Str(<<"q">>)>>, <<name, Str(LongText)>>,
            <<hire_date, Str(<<"2", "0", "2", "0">>)>> >> >>,
      << << <<<<"a">>, Str(<<" ", "1", "e", "5", " ">>)>>,
            <<<<"b">>, Str(<<"1", "_", "0">>)>>,
            <<<<"c">>, Str(<<>>)>>,
            <<<<"d">>, Str(<<"N", "a", "N">>)>>,
            <<<<"e">>, Str(<<"1", ".", "2", ".", "3">>)>>,
            <<<<"f">>, Str(<<"-">>)>> >> >>,
      << <<>>, << <<id, IntVal(1)>> >> >>,
      << << <<UPDATED, IntVal(5)>>, <<<<"D", "a", "t", "e">>, Str(<<"x">>)>>,
            <<lifetime, Str(<<"+", ".", "5">>)>>, <<<<"T">>, None>> >> >> }

\* a further row of a result set: number i in every column of the first row
FillerRow(columns, i) == [c \in 1..Len(columns) |-> <<columns[c], IntVal(i)>>]

\* the result set of n rows that starts with the rows of head
FmtResultSet(head, n) ==
    [i \in 1..n |-> IF i <= Len(head) THEN head[i]
                    ELSE FillerRow(Keys(head[1]), i)]

FmtResultSets == {FmtResultSet(head, n) : head \in FmtHeadRows, n \in 0..MaxRows}

FmtQueries == { <<"S", "E", "L", "E", "C", "T", " ", "1">> }

\* what the results box shows before the call
FmtPriorTexts == { <<>>, <<Lit("Query Error:\n"), Lit("str(e)")>> }

InitFormat ==
    /\ guard_query = <<>>
    /\ guard_verdict = NoVerdict
    /\ WidgetInit
    /\ TutorialIdle
    /\ EditorIdle
    /\ WeatherWidgetIdle
    /\ SettingsIdle
    /\ fmt_query \in FmtQueries
    /\ fmt_results \in FmtResultSets
    /\ fmt_report \in FmtPriorTexts
    /\ fmt_raised = "pending"
    /\ fmt_earlier = <<>>
    /\ ConfigIdle
    /\ DbIdle
    /\ WeatherIdle
    /\ ConcurrentIdle

\* SQLTutorWidget.display_query_results(query, results)
DisplayQueryResults ==
    /\ fmt_raised = "pending"
    /\ LET raised == display_query_results_raises(fmt_results)
           report == display_query_results(fmt_report, fmt_query, fmt_results)
       IN  /\ fmt_raised' = raised
           /\ fmt_report' = IF raised = "none" THEN report
                            ELSE WrittenBeforeNumericLoop(report)
    /\ fmt_earlier' = Append(fmt_earlier, [query |-> fmt_query, rows |-> Len(fmt_results)])
    /\ UNCHANGED <<fmt_query, fmt_results, not_fmt_vars>>

NextFormat == DisplayQueryResults

SpecFormat == InitFormat /\ [][NextFormat]_vars

---------------------------------------------------------------------------
(* display_query_results called again and again on the same results box.   *)

\* display_query_results is called at most MaxInvocations times
MaxInvocations == 3

FreshQueries == { <<"S", "E", "L", "E", "C", "T", " ", "1">>, <<"q">> }

InitFresh ==
    /\ guard_query = <<>>
    /\ guard_verdict = NoVerdict
    /\ WidgetInit
    /\ TutorialIdle
    /\ EditorIdle
    /\ WeatherWidgetIdle
    /\ SettingsIdle
    /\ fmt_query = <<>>
    /\ fmt_results = <<>>
    /\ fmt_report \in FmtPriorTexts
    /\ fmt_raised = "pending"
    /\ fmt_earlier = <<>>
    /\ ConfigIdle
    /\ DbIdle
    /\ WeatherIdle
    /\ ConcurrentIdle

\* the next display_query_results(query, results) on the same box
DisplayNextResults ==
    \E query \in FreshQueries, results \in ResultSets :
        /\ Len(fmt_earlier) < MaxInvocations
        /\ fmt_query' = query
        /\ fmt_results' = results
        /\ fmt_raised' = display_query_results_raises(results)
        /\ fmt_report' = display_query_results(fmt_report, query, results)
        /\ fmt_earlier' = Append(fmt_earlier, [query |-> query, rows |-> Len(results)])
        /\ UNCHANGED not_fmt_vars

NextFresh == DisplayNextResults

SpecFresh == InitFresh /\ [][NextFresh]_vars


---------------------------------------------------------------------------
(* Config (src/utils/config.py): the singleton and its settings.           *)

\* Config() is called at most MaxHandles times, set at most MaxSets times
MaxHandles == 2
MaxSets == 2

\* a dict is a function on its keys: d.get(key, default), d[key] = value,
\* d.update(e)
DictGet(d, key, default) == IF key \in DOMAIN d THEN d[key] ELSE default
DictSet(d, key, value) ==
    [k \in DOMAIN d \cup {key} |-> IF k = key THEN value ELSE d[k]]
DictUpdate(d, e) ==
    [k \in DOMAIN d \cup DOMAIN e |-> IF k \in DOMAIN e THEN e[k] ELSE d[k]]

dark == <<"d", "a", "r", "k">>
light == <<"l", "i", "g", "h", "t">>
New_York == <<"N", "e", "w", " ", "Y", "o", "r", "k">>

\* self.defaults (three of its entries)
defaults ==
    [appearance_mode |-> Str(dark), font_size |-> IntVal(12),
     weather_location |-> Str(New_York)]

\* Config.load: the file merged over the defaults; the defaults when there
\* is no file or it cannot be read as JSON
load(file) ==
    IF file.state = "ok" THEN DictUpdate(defaults, file.data) ELSE defaults

\* an object __new__ has just allocated: no attribute yet
FreshObject == [initialized |-> FALSE, config_data |-> <<>>]

\* Config.__new__: the class attribute _instance and the objects after it
Config_new(instance, objects) ==
    IF instance = 0
    THEN [instance |-> Len(objects) + 1, objects |-> Append(objects, FreshObject)]
    ELSE [instance |-> instance, objects |-> objects]

\* the settings are loaded again on every call
Config_init_reloading(objects, self, file) ==
    [objects EXCEPT ![self] = [initialized |-> TRUE, config_data |-> load(file)]]

\* Config.__init__
Config_init(objects, self, file) ==
    IF objects[self].initialized THEN objects
    ELSE [objects EXCEPT ![self] = [initialized |-> TRUE, config_data |-> load(file)]]

\* Config.get
Config_get(objects, self, key, default) ==
    DictGet(objects[self].config_data, key, default)

\* Config.set
Config_set(objects, self, key, value) ==
    [objects EXCEPT ![self].config_data = DictSet(@, key, value)]

CfgKeys == {"font_size", "test_key"}
CfgValues == {Str(light), IntVal(14)}

\* the file at start: none, not JSON, or stored settings
CfgFiles ==
    { NoFile,
      [state |-> "corrupt", data |-> <<>>],
      [state |-> "ok", data |-> [font_size |-> IntVal(16)]],
      [state |-> "ok", data |-> [appearance_mode |-> Str(light),
                                 test_key |-> Str(<<"o", "l", "d">>)]] }

InitConfig ==
    /\ guard_query = <<>>
    /\ guard_verdict = NoVerdict
    /\ WidgetInit
    /\ TutorialIdle
    /\ EditorIdle
    /\ WeatherWidgetIdle
    /\ SettingsIdle
    /\ FmtIdle
    /\ cfg_instance = 0
    /\ cfg_objects = <<>>
    /\ cfg_handles = <<>>
    /\ cfg_file \in CfgFiles
    /\ cfg_sets = <<>>
    /\ cfg_got = NoGet
    /\ DbIdle
    /\ WeatherIdle
    /\ ConcurrentIdle

\* config = Config()
NewConfig ==
    /\ Len(cfg_handles) < MaxHandles
    /\ LET made == Config_new(cfg_instance, cfg_objects)
           self == made.instance
       IN  /\ cfg_instance' = made.instance
           /\ cfg_objects' = Config_init(made.objects, self, cfg_file)
           /\ cfg_handles' = Append(cfg_handles, [object |-> self, after |-> Len(cfg_sets)])
    /\ UNCHANGED <<cfg_file, cfg_sets, cfg_got, not_config_vars>>

\* config.set(key, value) through one of the handles
SetConfig ==
    \E h \in 1..Len(cfg_handles), key \in CfgKeys, value \in CfgValues :
        /\ Len(cfg_sets) < MaxSets
        /\ cfg_objects' = Config_set(cfg_objects, cfg_handles[h].object, key, value)
        /\ cfg_sets' = Append(cfg_sets, [key |-> key, value |-> value])
        /\ UNCHANGED <<cfg_instance, cfg_handles, cfg_file, cfg_got, not_config_vars>>

\* config.get(key) through one of the handles
GetConfig ==
    \E h \in 1..Len(cfg_handles), key \in CfgKeys :
        /\ cfg_got' = [handle |-> h, key |-> key, after |-> Len(cfg_sets),
                       value |-> Config_get(cfg_objects, cfg_handles[h].object, key, None)]
        /\ UNCHANGED <<cfg_instance, cfg_objects, cfg_handles, cfg_file, cfg_sets,
                       not_config_vars>>

NextConfig ==
    \/ NewConfig
    \/ SetConfig
    \/ GetConfig

SpecConfig == InitConfig /\ [][NextConfig]_vars

---------------------------------------------------------------------------
(* SQLEngine.__init__ (src/database/sql_engine.py): the sample tables.     *)
(* A row keeps the columns the constraints of its table read.  Every       *)
(* statement is committed on its own, so engines constructed on the same   *)
(* database file by several processes interleave statement by statement.   *)

\* at most MaxEngines SQLEngine objects are constructed on the database
MaxEngines == 2

departments_data ==
    << [dept_id |-> 1, dept_name |-> "Engineering"],
       [dept_id |-> 2, dept_name |-> "Marketing"],
       [dept_id |-> 3, dept_name |-> "Sales"],
       [dept_id |-> 4, dept_name |-> "HR"],
       [dept_id |-> 5, dept_name |-> "Finance"] >>

employees_data ==
    << [employee_id |-> 1, email |-> "john.doe@company.com", manager_id |-> None],
       [employee_id |-> 2, email |-> "jane.smith@company.com", manager_id |-> IntVal(1)],
       [employee_id |-> 3, email |-> "mike.johnson@company.com", manager_id |-> None],
       [employee_id |-> 4, email |-> "sarah.williams@company.com", manager_id |-> None],
       [employee_id |-> 5, email |-> "david.brown@company.com", manager_id |-> None],
       [employee_id |-> 6, email |-> "lisa.davis@company.com", manager_id |-> None],
       [employee_id |-> 7, email |-> "tom.wilson@company.com", manager_id |-> IntVal(2)],
       [employee_id |-> 8, email |-> "emma.garcia@company.com", manager_id |-> IntVal(3)] >>

sales_data ==
    << [sale_id |-> 1, employee_id |-> 2],
       [sale_id |-> 2, employee_id |-> 4],
       [sale_id |-> 3, employee_id |-> 4],
       [sale_id |-> 4, employee_id |-> 2],
       [sale_id |-> 5, employee_id |-> 4],
       [sale_id |-> 6, employee_id |-> 2],
       [sale_id |-> 7, employee_id |-> 4] >>

\* the INSERT statements of populate_sample_data, in the order it runs them
SampleInserts ==
    [i \in 1..Len(departments_data) |-> [table |-> "departments", row |-> departments_data[i]]]
    \o [i \in 1..Len(employees_data) |-> [table |-> "employees", row |-> employees_data[i]]]
    \o [i \in 1..Len(sales_data) |-> [table |-> "sales", row |-> sales_data[i]]]

\* PRIMARY KEY is left out of the three tables
ConstraintsHold_without_primary_key(tables, stmt) ==
    LET row == stmt.row
    IN  CASE stmt.table = "departments" ->
                \A k \in 1..Len(tables.departments) :
                    tables.departments[k].dept_name # row.dept_name
          [] stmt.table = "employees" ->
                /\ \A k \in 1..Len(tables.employees) :
                      tables.employees[k].email # row.email
                /\ \/ row.manager_id = None
                   \/ \E k \in 1..Len(tables.employees) :
                         IntVal(tables.employees[k].employee_id) = row.manager_id
          [] stmt.table = "sales" ->
                \E k \in 1..Len(tables.employees) :
                    tables.employees[k].employee_id = row.employee_id

\* the constraints of create_tables that sqlite checks on an INSERT:
\* PRIMARY KEY, UNIQUE, FOREIGN KEY (PRAGMA foreign_keys = ON)
ConstraintsHold(tables, stmt) ==
    LET row == stmt.row
    IN  CASE stmt.table = "departments" ->
                \A k \in 1..Len(tables.departments) :
                    /\ tables.departments[k].dept_id # row.dept_id
                    /\ tables.departments[k].dept_name # row.dept_name
          [] stmt.table = "employees" ->
                /\ \A k \in 1..Len(tables.employees) :
                      /\ tables.employees[k].employee_id # row.employee_id
                      /\ tables.employees[k].email # row.email
                /\ \/ row.manager_id = None
                   \/ \E k \in 1..Len(tables.employees) :
                         IntVal(tables.employees[k].employee_id) = row.manager_id
          [] stmt.table = "sales" ->
                /\ \A k \in 1..Len(tables.sales) :
                      tables.sales[k].sale_id # row.sale_id
                /\ \E k \in 1..Len(tables.employees) :
                      tables.employees[k].employee_id = row.employee_id

\* SQLEngine.execute_update of an INSERT: the row is committed, or sqlite
\* raises, the statement is rolled back and 0 is returned
execute_update(tables, stmt) ==
    IF tables.created /\ ConstraintsHold(tables, stmt)
    THEN [tables EXCEPT ![stmt.table] = Append(@, stmt.row)]
    ELSE tables

\* execute_query("SELECT COUNT(*) as count FROM employees")
count_employees(tables) ==
    IF tables.created THEN <<[count |-> Len(tables.employees)]>> ELSE <<>>

InitDb ==
    /\ guard_query = <<>>
    /\ guard_verdict = NoVerdict
    /\ WidgetInit
    /\ TutorialIdle
    /\ EditorIdle
    /\ WeatherWidgetIdle
    /\ SettingsIdle
    /\ FmtIdle
    /\ ConfigIdle
    /\ WeatherIdle
    /\ db_tables = NoTables
    /\ db_engines = <<>>
    /\ ConcurrentIdle

\* SQLEngine(db_path): connect
SQLEngine_init ==
    /\ Len(db_engines) < MaxEngines
    /\ db_engines' = Append(db_engines, [pc |-> "create_tables", inserted |-> 0])
    /\ UNCHANGED <<db_tables, not_db_vars>>

\* SQLEngine.create_tables: CREATE TABLE IF NOT EXISTS
create_tables ==
    \E e \in 1..Len(db_engines) :
        /\ db_engines[e].pc = "create_tables"
        /\ db_tables' = [db_tables EXCEPT !.created = TRUE]
        /\ db_engines' = [db_engines EXCEPT ![e].pc = "populate_sample_data"]
        /\ UNCHANGED not_db_vars

\* SQLEngine.populate_sample_data: the check for existing data
populate_sample_data ==
    \E e \in 1..Len(db_engines) :
        /\ db_engines[e].pc = "populate_sample_data"
        /\ LET existing_employees == count_employees(db_tables)
           IN  db_engines' =
                  [db_engines EXCEPT ![e].pc =
                      IF existing_employees # <<>> /\ existing_employees[1].count > 0
                      THEN "done" ELSE "insert"]
        /\ UNCHANGED <<db_tables, not_db_vars>>

\* SQLEngine.populate_sample_data: the next INSERT of the three loops
insert_sample_row ==
    \E e \in 1..Len(db_engines) :
        /\ db_engines[e].pc = "insert"
        /\ LET i == db_engines[e].inserted + 1
           IN  /\ db_tables' = execute_update(db_tables, SampleInserts[i])
               /\ db_engines' =
                     [db_engines EXCEPT ![e] =
                         [pc |-> IF i = Len(SampleInserts) THEN "done" ELSE "insert",
                          inserted |-> i]]
        /\ UNCHANGED not_db_vars

NextDb ==
    \/ SQLEngine_init
    \/ create_tables
    \/ populate_sample_data
    \/ insert_sample_row

SpecDb == InitDb /\ [][NextDb]_vars

---------------------------------------------------------------------------
(* WeatherAPI.get_current_weather (src/apis/weather_api.py).               *)
(* Time is counted in minutes.  A cache key f"current_{location}" is the   *)
(* pair <<"current", location>>.                                           *)

\* the clock stops at MaxClock minutes
MaxClock == 60

\* self.cache_duration, in minutes
cache_duration == 30

\* self.default_location
default_location == "New York"

\* the temperature of the fallback record is 20.0
FallbackTemperature == 20

\* WeatherAPI._is_cached_valid
is_cached_valid(cache, cache_key, now) ==
    /\ cache_key \in DOMAIN cache
    /\ now - cache[cache_key].timestamp < cache_duration

\* WeatherAPI._cache_data
cache_data(cache, cache_key, data, now) ==
    DictSet(cache, cache_key, [data |-> data, timestamp |-> now])

\* WeatherAPI._get_fallback_weather (the fields the callers tell records by)
get_fallback_weather(location, now) ==
    [location |-> location, temperature |-> IntVal(FallbackTemperature),
     description |-> "Weather data unavailable", last_updated |-> now,
     fallback |-> TRUE]

\* round(x, 1): "none" when it returns, else the exception
RoundRaises(x) == IF "n" \in DOMAIN x THEN "none" ELSE "TypeError"

\* WeatherAPI._transform_current_weather: the exception it raises, if any
transform_current_weather_raises(api_data) ==
    RoundRaises(DictGet(DictGet(api_data, "main", <<>>), "temp", IntVal(0)))

\* WeatherAPI._transform_current_weather
transform_current_weather(api_data, now) ==
    [location |-> DictGet(api_data, "name", "Unknown"),
     temperature |-> DictGet(DictGet(api_data, "main", <<>>), "temp", IntVal(0)),
     description |-> "", last_updated |-> now]

\* what the server may answer to a request for location q: a report, a
\* report without name and temperature, a report whose temperature is a
\* text, a body that is not JSON, or no answer / an HTTP error
Responses(q) ==
    { [kind |-> "json", body |-> [name |-> q, main |-> [temp |-> IntVal(7)]]],
      [kind |-> "json", body |-> <<>>],
      [kind |-> "json", body |-> [name |-> q, main |-> [temp |-> Str(<<"7">>)]]],
      [kind |-> "not_json", body |-> <<>>],
      [kind |-> "error", body |-> <<>>] }

\* the exception raised inside the try block ("none" when it runs to its end)
FetchRaises(response) ==
    IF response.kind = "error" THEN "RequestException"
    ELSE IF response.kind = "not_json" THEN "JSONDecodeError"
    ELSE transform_current_weather_raises(response.body)

\* except requests.exceptions.RequestException
RequestExceptions == {"RequestException"}

\* except Exception
Exceptions == {"RequestException", "JSONDecodeError", "TypeError"}

\* a failed request stores the fallback record in the cache
get_current_weather_caching_fallback(api_key, cache, now, location0, response) ==
    LET location == IF location0 = "" THEN default_location ELSE location0
        cache_key == <<"current", location>>
        failure == FetchRaises(response)
    IN  IF is_cached_valid(cache, cache_key, now)
        THEN [raised |-> "none", data |-> cache[cache_key].data, cache |-> cache,
              requested |-> FALSE, failure |-> "none"]
        ELSE IF api_key = ""
        THEN [raised |-> "none", data |-> get_fallback_weather(location, now),
              cache |-> cache, requested |-> FALSE, failure |-> "none"]
        ELSE IF failure = "none"
        THEN LET weather_data == transform_current_weather(response.body, now)
             IN  [raised |-> "none", data |-> weather_data,
                  cache |-> cache_data(cache, cache_key, weather_data, now),
                  requested |-> TRUE, failure |-> "none"]
        ELSE IF failure \in RequestExceptions \cup Exceptions
        THEN [raised |-> "none", data |-> get_fallback_weather(location, now),
              cache |-> cache_data(cache, cache_key, get_fallback_weather(location, now), now),
              requested |-> TRUE, failure |-> failure]
        ELSE [raised |-> failure, data |-> <<>>, cache |-> cache,
              requested |-> TRUE, failure |-> failure]

\* WeatherAPI.get_current_weather(location0): what it returns or raises, the
\* cache after it, whether a request was sent and how the try block ended.
\* location0 = "" stands for None and for the empty text.
get_current_weather(api_key, cache, now, location0, response) ==
    LET location == IF location0 = "" THEN default_location ELSE location0
        cache_key == <<"current", location>>
        failure == FetchRaises(response)
    IN  IF is_cached_valid(cache, cache_key, now)
        THEN [raised |-> "none", data |-> cache[cache_key].data, cache |-> cache,
              requested |-> FALSE, failure |-> "none"]
        ELSE IF api_key = ""
        THEN [raised |-> "none", data |-> get_fallback_weather(location, now),
              cache |-> cache, requested |-> FALSE, failure |-> "none"]
        ELSE IF failure = "none"
        THEN LET weather_data == transform_current_weather(response.body, now)
             IN  [raised |-> "none", data |-> weather_data,
                  cache |-> cache_data(cache, cache_key, weather_data, now),
                  requested |-> TRUE, failure |-> "none"]
        ELSE IF failure \in RequestExceptions \cup Exceptions
        THEN [raised |-> "none", data |-> get_fallback_weather(location, now),
              cache |-> cache, requested |-> TRUE, failure |-> failure]
        ELSE [raised |-> failure, data |-> <<>>, cache |-> cache,
              requested |-> TRUE, failure |-> failure]

WxLocations == {"", "Paris"}
WxApiKeys == {"", "key"}
TickMinutes == {10, 30}

InitWeather ==
    /\ guard_query = <<>>
    /\ guard_verdict = NoVerdict
    /\ WidgetInit
    /\ TutorialIdle
    /\ EditorIdle
    /\ WeatherWidgetIdle
    /\ SettingsIdle
    /\ FmtIdle
    /\ ConfigIdle
    /\ DbIdle
    /\ wx_api_key \in WxApiKeys
    /\ wx_cache = <<>>
    /\ wx_now = 0
    /\ wx_returned = NoCall
    /\ ConcurrentIdle

\* time passes
Tick ==
    \E d \in TickMinutes :
        /\ wx_now + d <= MaxClock
        /\ wx_now' = wx_now + d
        /\ UNCHANGED <<wx_api_key, wx_cache, wx_returned, not_weather_vars>>

\* weather_api.get_current_weather(location0)
GetCurrentWeather ==
    \E location0 \in WxLocations :
        \E response \in Responses(IF location0 = "" THEN default_location ELSE location0) :
            LET got == get_current_weather(wx_api_key, wx_cache, wx_now, location0, response)
            IN  /\ wx_cache' = got.cache
                /\ wx_returned' =
                      [called |-> TRUE, location0 |-> location0, raised |-> got.raised,
                       data |-> got.data, requested |-> got.requested,
                       failure |-> got.failure, cache_before |-> wx_cache]
                /\ UNCHANGED <<wx_api_key, wx_now, not_weather_vars>>

NextWeather ==
    \/ Tick
    \/ GetCurrentWeather

SpecWeather == InitWeather /\ [][NextWeather]_vars

---------------------------------------------------------------------------
(* validate_sql_query and display_query_results invoked by several callers *)
(* at once.  The guard works on its argument and locals only.  The         *)
(* formatter works on self.results_text through a series of Tk calls; the  *)
(* calls of different callers interleave call by call.                     *)

\* how many fragments each results_text.insert of a report writes
InsertSizes(results) ==
    IF results = <<>> THEN <<3, 1, 1, 1, 1, 1>>
    ELSE LET columns == Keys(results[1])
             shown == Len(Take(results, MaxDisplayRows))
         IN  <<3, 3, 2, 2>>
                \o [i \in 1..shown |-> 2]
                \o (IF MorePart(results) = <<>> THEN <<>> ELSE <<3>>)
                \o <<3, 1, 3, 3, 3, 1>>
                \o (IF numeric_cols(results, columns) = <<>> THEN <<>> ELSE <<3, 1>>)
                \o (IF date_cols(columns) = <<>> THEN <<>> ELSE <<3, 1>>)
                \o <<1>>
                \o (IF Len(results) > 1 THEN <<1, 1, 1>> ELSE <<>>)

RECURSIVE SplitBySizes(_, _)
SplitBySizes(fragments, sizes) ==
    IF sizes = <<>> THEN <<>>
    ELSE <<SubSeq(fragments, 1, Head(sizes))>>
            \o SplitBySizes(SubSeq(fragments, Head(sizes) + 1, Len(fragments)), Tail(sizes))

\* the delete is missing
tk_calls_without_delete(query, results) ==
    LET texts == SplitBySizes(display_query_results(<<>>, query, results),
                              InsertSizes(results))
    IN  [k \in 1..Len(texts) |-> [call |-> "insert", text |-> texts[k]]]

\* the calls display_query_results makes on results_text, in order
tk_calls(query, results) ==
    LET texts == SplitBySizes(display_query_results(<<>>, query, results),
                              InsertSizes(results))
    IN  <<[call |-> "delete", text |-> <<>>]>>
            \o [k \in 1..Len(texts) |-> [call |-> "insert", text |-> texts[k]]]

\* results_text after one call
TkApply(box, tk) == IF tk.call = "delete" THEN <<>> ELSE box \o tk.text

CcGuardQueries ==
    { <<"S", "e", "l", "e", "c", "t", " ", "1", ";">>, <<"d", "r", "o", "p">> }
CcResultSets == { <<>> }

\* caller c is inside display_query_results
Formatting(callers, c) ==
    /\ callers[c].op = "display_query_results"
    /\ ~callers[c].returned

InitConcurrent ==
    /\ guard_query = <<>>
    /\ guard_verdict = NoVerdict
    /\ WidgetInit
    /\ TutorialIdle
    /\ EditorIdle
    /\ WeatherWidgetIdle
    /\ SettingsIdle
    /\ FmtIdle
    /\ ConfigIdle
    /\ DbIdle
    /\ WeatherIdle
    /\ cc_box \in FmtPriorTexts
    /\ cc_callers = [c \in Callers |-> NotCalling]

\* caller c enters validate_sql_query(query)
CallGuard ==
    \E c \in Callers, query \in CcGuardQueries :
        /\ cc_callers[c].op = "none"
        /\ cc_callers' =
              [cc_callers EXCEPT ![c] =
                  [op |-> "validate_sql_query", query |-> query, returned |-> FALSE,
                   others |-> {d \in Callers : cc_callers[d].op # "none"
                                                /\ ~cc_callers[d].returned}]]
        /\ UNCHANGED <<cc_box, not_concurrent_vars>>

\* validate_sql_query returns to caller c
ReturnGuard ==
    \E c \in Callers :
        /\ cc_callers[c].op = "validate_sql_query"
        /\ ~cc_callers[c].returned
        /\ cc_callers' =
              [cc_callers EXCEPT ![c] =
                  [op |-> "validate_sql_query", query |-> cc_callers[c].query,
                   returned |-> TRUE, others |-> cc_callers[c].others,
                   verdict |-> validate_sql_query(cc_callers[c].query)]]
        /\ UNCHANGED <<cc_box, not_concurrent_vars>>

\* caller c enters display_query_results(query, results)
CallFormatter ==
    \E c \in Callers, query \in FreshQueries, results \in CcResultSets :
        /\ cc_callers[c].op = "none"
        /\ cc_callers' =
              [d \in Callers |->
                  IF d = c
                  THEN [op |-> "display_query_results", query |-> query,
                        results |-> results, returned |-> FALSE, done |-> 0,
                        overlapped |-> \E e \in Callers : Formatting(cc_callers, e)]
                  ELSE IF Formatting(cc_callers, d)
                  THEN [cc_callers[d] EXCEPT !.overlapped = TRUE]
                  ELSE cc_callers[d]]
        /\ UNCHANGED <<cc_box, not_concurrent_vars>>

\* the next Tk call of caller c's display_query_results; after the last
\* one the caller sees the box
StepFormatter ==
    \E c \in Callers :
        /\ Formatting(cc_callers, c)
        /\ LET todo == tk_calls(cc_callers[c].query, cc_callers[c].results)
               k == cc_callers[c].done + 1
           IN  /\ cc_box' = TkApply(cc_box, todo[k])
               /\ cc_callers' =
                     [cc_callers EXCEPT ![c] =
                         IF k < Len(todo)
                         THEN [cc_callers[c] EXCEPT !.done = k]
                         ELSE [op |-> "display_query_results",
                               query |-> cc_callers[c].query,
                               results |-> cc_callers[c].results,
                               returned |-> TRUE, done |-> k,
                               overlapped |-> cc_callers[c].overlapped,
                               report |-> TkApply(cc_box, todo[k])]]
        /\ UNCHANGED not_concurrent_vars

NextConcurrent ==
    \/ CallGuard
    \/ ReturnGuard
    \/ CallFormatter
    \/ StepFormatter

SpecConcurrent == InitConcurrent /\ [][NextConcurrent]_vars

---------------------------------------------------------------------------
(* Config (src/utils/config.py): reset_to_defaults, update_sql_progress,   *)
(* add_recent_project and save.  The values of sql_tutorial_progress and   *)
(* recent_projects are a dict and a list object: self.defaults and         *)
(* self.config_data hold references to them, and dict.copy() copies the    *)
(* references, not the objects.                                            *)

\* at most MaxSettingsOps operations are made on the Config object
MaxSettingsOps == 4

\* recent[:10]
RecentLimit == 10

MutableKeys == {"sql_tutorial_progress", "recent_projects"}

\* the object created for key by the literal of self.defaults, and the
\* latest object created for config_data[key] (by json.load, {} or a slice)
DefaultsObject(key) == <<"defaults", key>>
OwnObject(key) == <<"config_data", key>>
Addresses == {"defaults", "config_data"} \X MutableKeys

Ref(address) == [ref |-> address]
IsRef(value) == "ref" \in DOMAIN value
DictObject(items) == [dict |-> items]
ListObject(items) == [list |-> items]
Unallocated == [free |-> TRUE]

\* the values of a dict with every reference replaced by the object it
\* refers to: what json.dump writes and what a reader of the dict sees
Deep(heap, d) == [k \in DOMAIN d |-> IF IsRef(d[k]) THEN heap[d[k].ref] ELSE d[k]]

\* path in recent, recent.remove(path): the first occurrence goes
ListContains(list, x) == \E i \in 1..Len(list) : list[i] = x
ListRemove(list, x) ==
    LET at == Min({i \in 1..Len(list) : list[i] = x})
    IN  SubSeq(list, 1, at - 1) \o SubSeq(list, at + 1, Len(list))

\* self.defaults = {...}: the literal creates a new dict and a new list
Config_defaults ==
    [heap |-> [a \in Addresses |->
                  IF a = DefaultsObject("sql_tutorial_progress") THEN DictObject(<<>>)
                  ELSE IF a = DefaultsObject("recent_projects") THEN ListObject(<<>>)
                  ELSE Unallocated],
     defaults |-> [font_size |-> IntVal(12),
                   sql_tutorial_progress |-> Ref(DefaultsObject("sql_tutorial_progress")),
                   recent_projects |-> Ref(DefaultsObject("recent_projects"))]]

\* Config.load: json.load creates the objects of the file; the keys the
\* file lacks (all of them without a readable file) keep the references
\* that self.defaults.copy() copied
Config_load(self, file) ==
    LET loaded == IF file.state = "ok" THEN file.data ELSE <<>>
    IN  [heap |-> [a \in Addresses |->
                      IF a[1] = "config_data" /\ a[2] \in DOMAIN loaded
                      THEN loaded[a[2]] ELSE self.heap[a]],
         config_data |->
             DictUpdate(self.defaults,
                        [k \in DOMAIN loaded |->
                            IF k \in MutableKeys THEN Ref(OwnObject(k)) ELSE loaded[k]])]

\* Config.__init__ on a new object
Config_construct(start) ==
    LET made == Config_defaults
        loaded == Config_load(made, start.file)
    IN  [heap |-> loaded.heap, defaults |-> made.defaults,
         config_data |-> loaded.config_data, file |-> start.file,
         writable |-> start.writable]

\* the objects config_data no longer refers to are gone
Collect(self) ==
    [self EXCEPT !.heap =
        [a \in Addresses |->
            IF a[1] = "config_data"
               /\ ~(a[2] \in DOMAIN self.config_data /\ self.config_data[a[2]] = Ref(a))
            THEN Unallocated ELSE self.heap[a]]]

\* Config.save: json.dump of config_data; an exception leaves the file
save(self) ==
    IF self.writable
    THEN [self EXCEPT !.file = [state |-> "ok", data |-> Deep(self.heap, self.config_data)]]
    ELSE self

\* Config.set, on a Config with references
Config_set_item(self, key, value) ==
    Collect([self EXCEPT !.config_data = DictSet(@, key, value)])

\* Config.update_sql_progress
update_sql_progress(self, lesson, completed) ==
    LET key == "sql_tutorial_progress"
        present == IF key \in DOMAIN self.config_data THEN self
                   ELSE [self EXCEPT !.heap[OwnObject(key)] = DictObject(<<>>),
                                     !.config_data = DictSet(@, key, Ref(OwnObject(key)))]
        progress == present.config_data[key].ref
    IN  save([present EXCEPT !.heap[progress].dict = DictSet(@, lesson, completed)])

\* an existing path is not removed first
add_recent_project_keeping_duplicate(self, project_path) ==
    LET key == "recent_projects"
        recent == self.config_data[key].ref
        inserted == <<project_path>> \o self.heap[recent].list
        mutated == [self EXCEPT !.heap[recent].list = inserted]
    IN  save([mutated EXCEPT !.heap[OwnObject(key)] = ListObject(Take(inserted, RecentLimit)),
                             !.config_data = DictSet(@, key, Ref(OwnObject(key)))])

\* Config.add_recent_project: remove and insert change the list object
\* config_data refers to; the slice is a new list
add_recent_project(self, project_path) ==
    LET key == "recent_projects"
        shared == key \in DOMAIN self.config_data
        recent == self.config_data[key].ref
        before == IF shared THEN self.heap[recent].list ELSE <<>>
        removed == IF ListContains(before, project_path)
                   THEN ListRemove(before, project_path) ELSE before
        inserted == <<project_path>> \o removed
        mutated == IF shared THEN [self EXCEPT !.heap[recent].list = inserted] ELSE self
    IN  save([mutated EXCEPT !.heap[OwnObject(key)] = ListObject(Take(inserted, RecentLimit)),
                             !.config_data = DictSet(@, key, Ref(OwnObject(key)))])

\* Config.reset_to_defaults
reset_to_defaults(self) ==
    save(Collect([self EXCEPT !.config_data = self.defaults]))

Fillers == <<"f1", "f2", "f3", "f4", "f5", "f6", "f7", "f8", "f9", "f10">>
StPaths == {"p", "f3", "f10"}
StLessons == {"basics", "joins"}
StSetKeys == {"font_size"}
StSetValues == {IntVal(14), IntVal(16)}

\* the file at start: none, not JSON, a file written by save(), a file
\* that lacks keys
StFiles ==
    { NoFile,
      [state |-> "corrupt", data |-> <<>>],
      [state |-> "ok",
       data |-> [font_size |-> IntVal(16),
                 sql_tutorial_progress |-> DictObject([l \in {"basics"} |-> TRUE]),
                 recent_projects |-> ListObject(Fillers)]],
      [state |-> "ok",
       data |-> [recent_projects |-> ListObject(<<"f1", "p", "f3">>)]] }

\* the Config object as the variables hold it
Self ==
    [heap |-> st_heap, defaults |-> st_defaults, config_data |-> st_config_data,
     file |-> st_file, writable |-> st_start.writable]

Becomes(self) ==
    /\ st_heap' = self.heap
    /\ st_defaults' = self.defaults
    /\ st_config_data' = self.config_data
    /\ st_file' = self.file
    /\ st_ops' = st_ops + 1
    /\ UNCHANGED <<st_start, not_settings_vars>>

\* config = Config() has run
InitSettings ==
    /\ guard_query = <<>>
    /\ guard_verdict = NoVerdict
    /\ WidgetInit
    /\ TutorialIdle
    /\ EditorIdle
    /\ WeatherWidgetIdle
    /\ FmtIdle
    /\ ConfigIdle
    /\ DbIdle
    /\ WeatherIdle
    /\ ConcurrentIdle
    /\ st_start \in [file : StFiles, writable : BOOLEAN]
    /\ LET self == Config_construct(st_start)
       IN  /\ st_heap = self.heap
           /\ st_defaults = self.defaults
           /\ st_config_data = self.config_data
           /\ st_file = self.file
    /\ st_last = [op |-> "__init__"]
    /\ st_ops = 0

\* config.set(key, value)
SetItem ==
    \E key \in StSetKeys, value \in StSetValues :
        /\ st_ops < MaxSettingsOps
        /\ Becomes(Config_set_item(Self, key, value))
        /\ st_last' = [op |-> "set"]

\* config.update_sql_progress(lesson, completed)
UpdateSqlProgress ==
    \E lesson \in StLessons, completed \in BOOLEAN :
        /\ st_ops < MaxSettingsOps
        /\ Becomes(update_sql_progress(Self, lesson, completed))
        /\ st_last' = [op |-> "update_sql_progress"]

\* config.add_recent_project(project_path)
AddRecentProject ==
    \E project_path \in StPaths :
        /\ st_ops < MaxSettingsOps
        /\ Becomes(add_recent_project(Self, project_path))
        /\ st_last' = [op |-> "add_recent_project", project_path |-> project_path,
                       before |-> Deep(st_heap, st_config_data)["recent_projects"].list]

\* config.reset_to_defaults()
ResetToDefaults ==
    /\ st_ops < MaxSettingsOps
    /\ Becomes(reset_to_defaults(Self))
    /\ st_last' = [op |-> "reset_to_defaults"]

NextSettings ==
    \/ SetItem
    \/ UpdateSqlProgress
    \/ AddRecentProject
    \/ ResetToDefaults

SpecSettings == InitSettings /\ [][NextSettings]_vars

---------------------------------------------------------------------------
(* WeatherWidget (src/gui/weather_widget.py): load_weather_data and its    *)
(* fetch_weather threads, update_weather_display, update_location,         *)
(* refresh_weather and the auto-refresh timer.  The handlers and the       *)
(* after callbacks run one at a time on the Tk main thread; a fetch_weather*)
(* thread runs beside them and beside the other threads, one attribute     *)
(* read or write at a time.  The status label is left out.                 *)

\* load_weather_data is called at most MaxLoads times, the auto-refresh
\* option is clicked at most MaxToggles times
MaxLoads == 2
MaxToggles == 4

Oslo == <<"O", "s", "l", "o">>
WwEntries == { <<>>, <<" ">>, Oslo, <<"R", "o", "m", "e", " ">> }

\* what get_current_weather / get_forecast return for a location, tagged
\* with the number of the load whose thread asked
Fetched(thread, location) == [load |-> thread, location |-> location]

\* load_weather_data: a new fetch_weather thread
load_weather_data(threads) == Append(threads, [pc |-> "location", location |-> <<>>])

\* self.location_entry.get().strip() or self.config.get('weather_location', ...)
fetch_location(entry, weather_location) ==
    IF strip(entry) # <<>> THEN strip(entry) ELSE weather_location

\* the main thread is between two handlers
MainLoopIdle == ww_display = "idle"

\* WeatherWidget.__init__ has run: load_weather_data() was called once and
\* no timer was started
InitWeatherWidget ==
    /\ guard_query = <<>>
    /\ guard_verdict = NoVerdict
    /\ WidgetInit
    /\ TutorialIdle
    /\ EditorIdle
    /\ FmtIdle
    /\ ConfigIdle
    /\ DbIdle
    /\ WeatherIdle
    /\ ConcurrentIdle
    /\ SettingsIdle
    /\ ww_entry = <<>>
    /\ ww_weather_location = New_York
    /\ ww_threads = load_weather_data(<<>>)
    /\ ww_current_weather = NoData
    /\ ww_forecast_data = NoData
    /\ ww_after = <<>>
    /\ ww_display = "idle"
    /\ ww_shown = [current |-> NoData, forecast |-> NoData]
    /\ ww_auto_refresh = TRUE
    /\ ww_timers = 0
    /\ ww_toggles = 0

\* the user edits the location entry
TypeLocation ==
    \E text \in WwEntries :
        /\ MainLoopIdle
        /\ text # ww_entry
        /\ ww_entry' = text
        /\ UNCHANGED <<ww_weather_location, ww_threads, ww_current_weather,
                       ww_forecast_data, ww_after, ww_display, ww_shown,
                       ww_auto_refresh, ww_timers, ww_toggles, not_wwidget_vars>>

\* WeatherWidget.update_location
UpdateLocation ==
    /\ MainLoopIdle
    /\ Len(ww_threads) < MaxLoads
    /\ IF strip(ww_entry) = <<>>
       THEN UNCHANGED <<ww_weather_location, ww_threads>>
       ELSE /\ ww_weather_location' = strip(ww_entry)
            /\ ww_threads' = load_weather_data(ww_threads)
    /\ UNCHANGED <<ww_entry, ww_current_weather, ww_forecast_data, ww_after,
                   ww_display, ww_shown, ww_auto_refresh, ww_timers, ww_toggles,
                   not_wwidget_vars>>

\* WeatherWidget.refresh_weather
RefreshWeather ==
    /\ MainLoopIdle
    /\ Len(ww_threads) < MaxLoads
    /\ ww_threads' = load_weather_data(ww_threads)
    /\ UNCHANGED <<ww_entry, ww_weather_location, ww_current_weather,
                   ww_forecast_data, ww_after, ww_display, ww_shown,
                   ww_auto_refresh, ww_timers, ww_toggles, not_wwidget_vars>>

\* WeatherWidget.start_auto_refresh: the timers pending after it
start_auto_refresh(auto_refresh, timers) ==
    IF auto_refresh THEN timers + 1 ELSE timers

\* the user clicks the auto-refresh option: the variable flips, then
\* WeatherWidget.toggle_auto_refresh runs
ToggleAutoRefresh ==
    /\ MainLoopIdle
    /\ ww_toggles < MaxToggles
    /\ ww_toggles' = ww_toggles + 1
    /\ ww_auto_refresh' = ~ww_auto_refresh
    /\ ww_timers' = IF ww_auto_refresh' THEN start_auto_refresh(ww_auto_refresh', ww_timers)
                    ELSE ww_timers
    /\ UNCHANGED <<ww_entry, ww_weather_location, ww_threads, ww_current_weather,
                   ww_forecast_data, ww_after, ww_display, ww_shown,
                   not_wwidget_vars>>

\* a timer fires: WeatherWidget.auto_refresh_callback
AutoRefreshCallback ==
    /\ MainLoopIdle
    /\ ww_timers > 0
    /\ IF ww_auto_refresh
       THEN /\ Len(ww_threads) < MaxLoads
            /\ ww_threads' = load_weather_data(ww_threads)
            /\ ww_timers' = start_auto_refresh(ww_auto_refresh, ww_timers - 1)
       ELSE /\ ww_timers' = ww_timers - 1
            /\ UNCHANGED ww_threads
    /\ UNCHANGED <<ww_entry, ww_weather_location, ww_current_weather,
                   ww_forecast_data, ww_after, ww_display, ww_shown,
                   ww_auto_refresh, ww_toggles, not_wwidget_vars>>

\* one step of a fetch_weather thread
FetchWeather ==
    \E t \in 1..Len(ww_threads) :
        LET thread == ww_threads[t]
        IN  /\ \/ /\ thread.pc = "location"
                  /\ \/ /\ ww_threads' = [ww_threads EXCEPT ![t] =
                               [pc |-> "current",
                                location |-> fetch_location(ww_entry, ww_weather_location)]]
                        /\ UNCHANGED ww_after
                     \/ /\ ww_threads' = [ww_threads EXCEPT ![t].pc = "failed"]
                        /\ ww_after' = Append(ww_after, "update_status")
                  /\ UNCHANGED <<ww_current_weather, ww_forecast_data>>
               \/ /\ thread.pc = "current"
                  /\ ww_current_weather' = Fetched(t, thread.location)
                  /\ ww_threads' = [ww_threads EXCEPT ![t].pc = "forecast"]
                  /\ UNCHANGED <<ww_forecast_data, ww_after>>
               \/ /\ thread.pc = "forecast"
                  /\ ww_forecast_data' = Fetched(t, thread.location)
                  /\ ww_threads' = [ww_threads EXCEPT ![t].pc = "schedule"]
                  /\ UNCHANGED <<ww_current_weather, ww_after>>
               \/ /\ thread.pc = "schedule"
                  /\ ww_after' = Append(ww_after, "update_weather_display")
                  /\ ww_threads' = [ww_threads EXCEPT ![t].pc = "done"]
                  /\ UNCHANGED <<ww_current_weather, ww_forecast_data>>
            /\ UNCHANGED <<ww_entry, ww_weather_location, ww_display, ww_shown,
                           ww_auto_refresh, ww_timers, ww_toggles, not_wwidget_vars>>

\* the main loop runs the oldest after(0, ...) callback;
\* update_weather_display returns at once without current_weather, else
\* it shows current_weather first
RunCallback ==
    /\ MainLoopIdle
    /\ ww_after # <<>>
    /\ ww_after' = Tail(ww_after)
    /\ IF Head(ww_after) = "update_weather_display" /\ ww_current_weather # NoData
       THEN /\ ww_shown' = [ww_shown EXCEPT !.current = ww_current_weather]
            /\ ww_display' = "update_forecast_display"
       ELSE UNCHANGED <<ww_shown, ww_display>>
    /\ UNCHANGED <<ww_entry, ww_weather_location, ww_threads, ww_current_weather,
                   ww_forecast_data, ww_auto_refresh, ww_timers, ww_toggles,
                   not_wwidget_vars>>

\* update_weather_display goes on: update_forecast_display shows
\* forecast_data
UpdateForecastDisplay ==
    /\ ww_display = "update_forecast_display"
    /\ ww_shown' = [ww_shown EXCEPT !.forecast = ww_forecast_data]
    /\ ww_display' = "idle"
    /\ UNCHANGED <<ww_entry, ww_weather_location, ww_threads, ww_current_weather,
                   ww_forecast_data, ww_after, ww_auto_refresh, ww_timers,
                   ww_toggles, not_wwidget_vars>>

\* the loads the user asks for, with the option left as it is at start
NextWeatherLoads ==
    \/ TypeLocation
    \/ UpdateLocation
    \/ RefreshWeather
    \/ FetchWeather
    \/ RunCallback
    \/ UpdateForecastDisplay

SpecWeatherLoads == InitWeatherWidget /\ [][NextWeatherLoads]_vars

\* the auto-refresh option and its timers, with the loads they start
NextAutoRefresh ==
    \/ ToggleAutoRefresh
    \/ AutoRefreshCallback
    \/ FetchWeather
    \/ RunCallback
    \/ UpdateForecastDisplay

SpecAutoRefresh == InitWeatherWidget /\ [][NextAutoRefresh]_vars

---------------------------------------------------------------------------
(* CodeEditorWidget (src/gui/code_editor.py): the modified indicator.      *)
(* new_file, open_file, open_project_file, save_file, on_text_change and   *)
(* the delayed reset that save_file schedules.  The bullet and the check   *)
(* mark of the label texts are written "*" and "+".                        *)

\* the editor handles at most MaxEditorEvents user events
MaxEditorEvents == 6

Modified == <<"*", " ", "M", "o", "d", "i", "f", "i", "e", "d">>
Saved == <<"+", " ", "S", "a", "v", "e", "d">>

\* what the file dialogs return: "" when cancelled
EdPaths == {"", "a.py", "b.py"}

\* lambda: self.modified_label.configure(text="")
delayed_reset(label) == <<>>

\* CodeEditorWidget.on_text_change: the label after it
on_text_change(current_file, label) ==
    IF current_file # "" /\ ~Contains(<<"*">>, label) THEN Modified ELSE label

\* CodeEditorWidget.__init__ has run
InitEditor ==
    /\ guard_query = <<>>
    /\ guard_verdict = NoVerdict
    /\ WidgetInit
    /\ TutorialIdle
    /\ FmtIdle
    /\ ConfigIdle
    /\ DbIdle
    /\ WeatherIdle
    /\ ConcurrentIdle
    /\ SettingsIdle
    /\ WeatherWidgetIdle
    /\ ed_current_file = ""
    /\ ed_modified_label = <<>>
    /\ ed_edited = FALSE
    /\ ed_timers = 0
    /\ ed_events = 0

EditorEvent ==
    /\ ed_events < MaxEditorEvents
    /\ ed_events' = ed_events + 1
    /\ UNCHANGED not_editor_vars

\* <KeyPress> in the editor: on_text_change runs, and a key that types or
\* deletes changes the text
KeyPress ==
    \E edits \in BOOLEAN :
        /\ EditorEvent
        /\ ed_modified_label' = on_text_change(ed_current_file, ed_modified_label)
        /\ ed_edited' = (ed_edited \/ edits)
        /\ UNCHANGED <<ed_current_file, ed_timers>>

\* <Button-1> in the editor: on_text_change runs
Button1 ==
    /\ EditorEvent
    /\ ed_modified_label' = on_text_change(ed_current_file, ed_modified_label)
    /\ UNCHANGED <<ed_current_file, ed_edited, ed_timers>>

\* CodeEditorWidget.new_file
new_file ==
    /\ EditorEvent
    /\ ed_current_file' = ""
    /\ ed_modified_label' = <<>>
    /\ ed_edited' = FALSE
    /\ UNCHANGED ed_timers

\* CodeEditorWidget.open_file and open_project_file: the dialog may be
\* cancelled and the file may be unreadable
open_file ==
    \E file_path \in EdPaths, readable \in BOOLEAN :
        /\ EditorEvent
        /\ IF file_path # "" /\ readable
           THEN /\ ed_current_file' = file_path
                /\ ed_modified_label' = <<>>
                /\ ed_edited' = FALSE
           ELSE UNCHANGED <<ed_current_file, ed_modified_label, ed_edited>>
        /\ UNCHANGED ed_timers

\* CodeEditorWidget.save_file: without a name the dialog asks for one (and
\* may be cancelled); the write may fail
save_file ==
    \E file_path \in EdPaths, written \in BOOLEAN :
        /\ EditorEvent
        /\ IF ed_current_file = "" /\ file_path = ""
           THEN UNCHANGED <<ed_current_file, ed_modified_label, ed_edited, ed_timers>>
           ELSE /\ ed_current_file' = IF ed_current_file = "" THEN file_path
                                      ELSE ed_current_file
                /\ IF written
                   THEN /\ ed_modified_label' = Saved
                        /\ ed_timers' = ed_timers + 1
                        /\ ed_edited' = FALSE
                   ELSE UNCHANGED <<ed_modified_label, ed_timers, ed_edited>>

\* 2 seconds after a save: the reset it scheduled runs
DelayedReset ==
    /\ ed_timers > 0
    /\ ed_timers' = ed_timers - 1
    /\ ed_modified_label' = delayed_reset(ed_modified_label)
    /\ UNCHANGED <<ed_current_file, ed_edited, ed_events, not_editor_vars>>

NextEditor ==
    \/ KeyPress
    \/ Button1
    \/ new_file
    \/ open_file
    \/ save_file
    \/ DelayedReset

SpecEditor == InitEditor /\ [][NextEditor]_vars

---------------------------------------------------------------------------
(* SQLTutorWidget: the tutorial buttons and the Example button.            *)

\* load_example_query is called at most MaxExampleCalls times after a
\* load_tutorial
MaxExampleCalls == 7

\* the widget as the variables hold it, when a handler starts
TuSelf ==
    [current_tutorial |-> tu_current_tutorial, current_lesson |-> tu_current_lesson,
     lesson_title |-> tu_lesson_title, progress_label |-> tu_progress_label,
     lesson_description |-> tu_lesson_description,
     query_input |-> query_input, validation_label |-> validation_label,
     results_text |-> results_text, calls |-> <<>>]

TuBecomes(self) ==
    /\ tu_current_tutorial' = self.current_tutorial
    /\ tu_current_lesson' = self.current_lesson
    /\ tu_lesson_title' = self.lesson_title
    /\ tu_progress_label' = self.progress_label
    /\ tu_lesson_description' = self.lesson_description
    /\ query_input' = self.query_input
    /\ validation_label' = self.validation_label
    /\ results_text' = self.results_text
    /\ calls' = self.calls
    /\ UNCHANGED <<guard_vars, fmt_vars, config_vars, db_vars, weather_vars,
                   concurrent_vars, settings_vars, wwidget_vars, editor_vars>>

InitTutorial ==
    /\ guard_query = <<>>
    /\ guard_verdict = NoVerdict
    /\ WidgetInit
    /\ OtherIdle

\* load_tutorial(tutorial_index): a tutorial button, or a call with an
\* index past the end of the list
LoadTutorial ==
    \E tutorial_index \in 0..(Len(get_sql_tutorials) + 1) :
        /\ TuBecomes(load_tutorial(TuSelf, get_sql_tutorials, tutorial_index))
        /\ last_handler' = "load_tutorial"
        /\ tu_last' = [op |-> "load_tutorial", tutorial_index |-> tutorial_index,
                       before |-> <<tu_current_tutorial, tu_current_lesson>>]
        /\ IF tutorial_index < Len(get_sql_tutorials)
           THEN tu_valid_load' = tutorial_index /\ tu_since_load' = 0
           ELSE UNCHANGED <<tu_valid_load, tu_since_load>>

\* the Example button: load_example_query()
LoadExampleQuery ==
    /\ tu_since_load < MaxExampleCalls
    /\ TuBecomes(load_example_query(TuSelf, get_sql_tutorials))
    /\ last_handler' = "load_example_query"
    /\ tu_last' = [op |-> "load_example_query"]
    /\ tu_since_load' = tu_since_load + 1
    /\ UNCHANGED tu_valid_load

NextTutorial ==
    \/ LoadTutorial
    \/ LoadExampleQuery
    \/ clear_query

SpecTutorial == InitTutorial /\ [][NextTutorial]_vars

---------------------------------------------------------------------------
(* Claims about the guard (checked under SpecGuard).                       *)

GuardCalled == guard_verdict # NoVerdict

\* the trimmed, uppercased text of the argument
GuardUpper == upper(strip(guard_query))

HasKeyword(i, text) == Contains(dangerous_keywords[i], text)
NoKeyword(text) == \A i \in 1..Len(dangerous_keywords) : ~HasKeyword(i, text)

\* C1: a text whose trimmed, uppercased form contains a denylisted keyword
\* anywhere is Rejected with 'Query contains dangerous keyword: <K>', K being
\* the first keyword of the denylist (not of the text) that occurs in it.
C1_FirstKeywordInDenylistOrder ==
    GuardCalled =>
        \A i \in 1..Len(dangerous_keywords) :
            (HasKeyword(i, GuardUpper) /\ \A j \in 1..(i - 1) : ~HasKeyword(j, GuardUpper))
                => guard_verdict = Verdict(FALSE, DangerousMsg(dangerous_keywords[i]))

\* C1 witness: UPDATE occurs in the text before DROP, and DROP is reported.
C1_Witness ==
    /\ GuardCalled
    /\ \E p, r \in 1..Len(GuardUpper) :
          /\ p < r
          /\ StartsWith(SubSeq(GuardUpper, p, Len(GuardUpper)), dangerous_keywords[3])
          /\ StartsWith(SubSeq(GuardUpper, r, Len(GuardUpper)), dangerous_keywords[1])
    /\ guard_verdict = Verdict(FALSE, DangerousMsg(dangerous_keywords[1]))

\* the argument with whitespace put around it
Padded(q) == {l \o q \o r : l, r \in {<<>>, <<" ">>, <<"\n", "\t">>}}

\* C2: Allowed exactly when the trimmed text has no denylisted keyword, starts
\* with SELECT (both case-insensitively) and ends with ';'; the verdict is the
\* same with whitespace added around the text and with its letter case changed.
C2_AllowedExactlyWhen ==
    GuardCalled =>
        /\ guard_verdict.is_valid <=>
              /\ NoKeyword(GuardUpper)
              /\ StartsWith(GuardUpper, SELECT)
              /\ EndsWith(strip(guard_query), Semicolon)
        /\ \A q \in Padded(guard_query) \cup {upper(guard_query), lower(guard_query)} :
              validate_sql_query(q) = guard_verdict

\* C2 witness: an Allowed text that is padded and of mixed case.
C2_Witness ==
    /\ GuardCalled
    /\ guard_verdict.is_valid
    /\ guard_query # strip(guard_query)
    /\ guard_query # upper(guard_query)
    /\ guard_query # lower(guard_query)

\* C3: a non-empty text without denylisted keyword whose trimmed form does not
\* start with SELECT is Rejected with exactly 'Only SELECT queries are allowed
\* in learning mode', with or without a final ';'.
C3_OnlySelectReason ==
    (GuardCalled /\ guard_query # <<>> /\ NoKeyword(GuardUpper)
        /\ ~StartsWith(GuardUpper, SELECT))
    => guard_verdict = Verdict(FALSE, OnlySelectMsg)

\* C3 witness: such a text that ends with ';' and mentions select further on.
C3_Witness ==
    /\ GuardCalled
    /\ guard_query # <<>>
    /\ EndsWith(strip(guard_query), Semicolon)
    /\ Contains(SELECT, GuardUpper)
    /\ NoKeyword(GuardUpper)
    /\ guard_verdict = Verdict(FALSE, OnlySelectMsg)

\* C4: a text without denylisted keyword that starts with SELECT and whose
\* trimmed form does not end with ';' is Rejected with exactly 'Query should
\* end with a semicolon (;)'.
C4_SemicolonReason ==
    (GuardCalled /\ NoKeyword(GuardUpper) /\ StartsWith(GuardUpper, SELECT)
        /\ ~EndsWith(strip(guard_query), Semicolon))
    => guard_verdict = Verdict(FALSE, SemicolonMsg)

\* C4 witness: a lower-case select, a ';' inside the text but not at its end.
C4_Witness ==
    /\ GuardCalled
    /\ StartsWith(strip(guard_query), lower(SELECT))
    /\ Contains(Semicolon, guard_query)
    /\ guard_verdict = Verdict(FALSE, SemicolonMsg)

FixedReasons ==
    {DangerousMsg(dangerous_keywords[i]) : i \in 1..Len(dangerous_keywords)}
        \cup {OnlySelectMsg, SemicolonMsg}

\* C5: every call returns a verdict and raises nothing; the reason of a
\* Rejected verdict is one of the nine fixed reasons; '' and ';' are Rejected
\* with the 'Only SELECT' reason.
C5_TotalFixedReasons ==
    GuardCalled =>
        /\ guard_verdict \in {Verdict(TRUE, PassedMsg)}
                                \cup {Verdict(FALSE, m) : m \in FixedReasons}
        /\ guard_query \in {<<>>, Semicolon}
              => guard_verdict = Verdict(FALSE, OnlySelectMsg)

\* C5 witness: the guard has answered for whitespace alone.
C5_Witness ==
    /\ GuardCalled
    /\ guard_query # <<>>
    /\ strip(guard_query) = <<>>
    /\ guard_verdict = Verdict(FALSE, OnlySelectMsg)

\* the statements of a text: the pieces that a ';' ends, without the ';'
RECURSIVE StatementsOf(_)
StatementsOf(s) ==
    LET semis == {p \in 1..Len(s) : s[p] = ";"}
    IN  IF semis = {} THEN <<>>
        ELSE <<SubSeq(s, 1, Min(semis) - 1)>>
                \o StatementsOf(SubSeq(s, Min(semis) + 1, Len(s)))

\* a text made of more than one ';'-terminated statement
MultiStatement(q) ==
    LET t == strip(q)
        stmts == StatementsOf(t)
    IN  /\ EndsWith(t, Semicolon)
        /\ Cardinality({k \in 1..Len(stmts) : strip(stmts[k]) # <<>>}) >= 2

\* C6 as stated: the guard never returns Allowed for a text made of more than
\* one ';'-terminated statement.
C6_SingleStatementOnly ==
    (GuardCalled /\ MultiStatement(guard_query)) => ~guard_verdict.is_valid

\* C6 amended: the guard does not count statements. A text of more than one
\* ';'-terminated statement is Allowed exactly when its first statement starts
\* with SELECT and none of its statements contains a denylisted keyword.
C6_MultiStatementAllowedIffClean ==
    (GuardCalled /\ MultiStatement(guard_query)) =>
        LET stmts == StatementsOf(strip(guard_query))
        IN  guard_verdict.is_valid <=>
                /\ StartsWith(upper(stmts[1]), SELECT)
                /\ \A k \in 1..Len(stmts) : NoKeyword(upper(stmts[k]))

\* C6 witness: two statements, the second one with a keyword, Rejected.
C6_Witness ==
    /\ GuardCalled
    /\ MultiStatement(guard_query)
    /\ LET stmts == StatementsOf(strip(guard_query))
       IN  /\ StartsWith(upper(stmts[1]), SELECT)
           /\ NoKeyword(upper(stmts[1]))
           /\ ~NoKeyword(upper(stmts[2]))
    /\ ~guard_verdict.is_valid

---------------------------------------------------------------------------
(* Claims about SQLTutorWidget.execute_query (checked under Spec).         *)

\* the latest handler was execute_query; it leaves query_input as it read it
LastRun == last_handler = "execute_query"

\* the text execute_query submits: the content of the box, stripped
SubmittedQuery == strip(TkGet(query_input))

CallsOf(trace, op) == {i \in 1..Len(trace) : trace[i].op = op}

\* C7: in every run of execute_query the database is called only right after
\* validate_sql_query returned Allowed for the very text that is executed, the
\* stripped content of the box; on empty input or a Rejected verdict there is
\* no database call, no report is produced and results_text is left alone.
C7_ExecuteOnlyAfterAllowed ==
    [][ last_handler' = "execute_query" =>
          LET q == strip(TkGet(query_input))
              rejected == \E i \in CallsOf(calls', "validate_sql_query") :
                              ~calls'[i].returned.is_valid
          IN  /\ \A i \in CallsOf(calls', "execute_query") :
                    /\ i > 1
                    /\ calls'[i - 1] = ValidateCall(q, Verdict(TRUE, PassedMsg))
                    /\ calls'[i].query = q
              /\ \A i \in CallsOf(calls', "validate_sql_query") :
                    /\ calls'[i].query = q
                    /\ \A j \in 1..(i - 1) : calls'[j].op # "execute_query"
              /\ (q = <<>> \/ rejected) =>
                    /\ CallsOf(calls', "execute_query") = {}
                    /\ CallsOf(calls', "display_query_results") = {}
                    /\ results_text' = results_text
              /\ q = <<>> => calls' = <<>>
      ]_vars

\* C7 witness: a padded text was accepted, and its stripped form was executed
\* and reported.
C7_Witness ==
    /\ LastRun
    /\ query_input # SubmittedQuery
    /\ \E i \in CallsOf(calls, "execute_query") : calls[i].query = SubmittedQuery
    /\ results_text[2] = Txt(SubmittedQuery)

\* C8: when the guard rejects the submitted query, the validation label shows
\* the guard's reason for that query, unchanged, after the rejection mark.
C8_RejectionShowsExactReason ==
    LastRun =>
        \A i \in CallsOf(calls, "validate_sql_query") :
            ~calls[i].returned.is_valid =>
                /\ calls[i].query = SubmittedQuery
                /\ calls[i].returned.message \in FixedReasons
                /\ validation_label = <<Lit("(x) ")>> \o calls[i].returned.message

\* C8 witness: a rejected query whose reason names a keyword is on display.
C8_Witness ==
    /\ LastRun
    /\ \E i \in CallsOf(calls, "validate_sql_query") : ~calls[i].returned.is_valid
    /\ validation_label = <<Lit("(x) ")>> \o DangerousMsg(dangerous_keywords[1])

\* C9 as stated: when the database fails on an Allowed query, the user is shown
\* a query error, never a successful query with an empty result.
C9_DbFailureShownAsError ==
    (LastRun /\ \E i \in CallsOf(calls, "execute_query") : calls[i].db_error)
    => /\ validation_label[1] = Lit("(x) Query error: ")
       /\ results_text[1] = Lit("Query Error:\n")

\* C10: for an empty result set and any query q the report is the echoed
\* query, the no-rows line and the three hints under their heading, and
\* nothing else: no table header, separator, data line or analysis.
C10_EmptyResultReport ==
    (LastRun /\ \E i \in CallsOf(calls, "display_query_results") : calls[i].rows = 0)
    => results_text =
          << Lit("Executed Query:\n"), Txt(SubmittedQuery), Lit("\n\n"),
             Lit("Results: No rows returned.\n\n"),
             Lit("This might mean:\n"),
             Lit("   - The query conditions didn't match any data\n"),
             Lit("   - The table is empty\n"),
             Lit("   - There might be a logical error in the query\n") >>

\* C10 witness: the database returned no row for an accepted query and the
\* report of that run is on display.
C10_Witness ==
    /\ LastRun
    /\ \E i \in CallsOf(calls, "execute_query") : ~calls[i].db_error
    /\ \E i \in CallsOf(calls, "display_query_results") : calls[i].rows = 0
    /\ results_text[2] = Txt(SubmittedQuery)

---------------------------------------------------------------------------
(* Claims about display_query_results and add_result_analysis (checked     *)
(* under SpecFormat).                                                      *)

FmtCalled == fmt_raised # "pending"

\* the fragments of the report of a non-empty result: the echo is 1..3, the
\* count line 4..6, the header 7..8, its rule 9..10, then one text and one
\* line end per data line
FmtShown == IF Len(fmt_results) < 100 THEN Len(fmt_results) ELSE 100
FmtDataLine(i) == fmt_report[10 + 2 * i - 1]
FmtAfterData(j) == fmt_report[10 + 2 * FmtShown + j]

\* the key order of the first row
FmtFirstKeys == [c \in 1..Len(fmt_results[1]) |-> fmt_results[1][c][1]]

\* C11: for n >= 1 rows the report holds exactly min(n, 100) data lines,
\* which are the first min(n, 100) input rows, and the line
\* "... and <n-100> more rows" is written if and only if n > 100.
C11_DataLinesAndMoreRows ==
    (FmtCalled /\ fmt_results # <<>>)
    => LET n == Len(fmt_results)
       IN  /\ Len(fmt_report) >= 10 + 2 * FmtShown + 2
           /\ fmt_report[9] = Txt(Repeat("-", Len(fmt_report[7].txt)))
           /\ \A i \in 1..FmtShown :
                 /\ FmtDataLine(i) = Txt(RowLine(fmt_results, FmtFirstKeys, fmt_results[i]))
                 /\ fmt_report[10 + 2 * i] = Lit("\n")
           /\ IF n > 100
              THEN /\ FmtAfterData(1) = Lit("\n... and ")
                   /\ FmtAfterData(2) = Txt(IntToChars(n - 100))
                   /\ FmtAfterData(3) = Lit(" more rows\n")
                   /\ FmtAfterData(4) = Lit("\n")
                   /\ FmtAfterData(5) = Txt(Repeat("=", 50))
              ELSE /\ FmtAfterData(1) = Lit("\n")
                   /\ FmtAfterData(2) = Txt(Repeat("=", 50))
           /\ (\E p \in 1..Len(fmt_report) : fmt_report[p] = Lit(" more rows\n"))
                 <=> n > 100

\* C11 witness: a report of 102 rows, whose 100 data lines are followed by
\* "... and 2 more rows".
C11_Witness ==
    /\ FmtCalled
    /\ Len(fmt_results) = 102
    /\ FmtDataLine(100) = Txt(RowLine(fmt_results, FmtFirstKeys, fmt_results[100]))
    /\ FmtAfterData(2) = Txt(<<"2">>)

\* line 0 is the header, line i >= 1 the i-th data line
FmtLine(i) == IF i = 0 THEN fmt_report[7].txt ELSE FmtDataLine(i).txt

\* what cell c of line i shows: the column name, or str() of the row's value
\* (the empty text when the row has no such key)
FmtCellText(i, c) ==
    IF i = 0 THEN FmtFirstKeys[c]
    ELSE LET row == fmt_results[i]
             at == {k \in 1..Len(row) : row[k][1] = FmtFirstKeys[c]}
         IN  IF at = {} THEN <<>> ELSE PyStr(row[Min(at)][2])

\* the room cell c takes in line i
FmtCellLen(i, c) ==
    LET w == ColWidth(fmt_results, FmtFirstKeys[c])
    IN  IF Len(FmtCellText(i, c)) > w THEN Len(FmtCellText(i, c)) ELSE w

\* the number of characters of line i before cell c
RECURSIVE FmtOffset(_, _)
FmtOffset(i, c) ==
    IF c = 1 THEN 0 ELSE FmtOffset(i, c - 1) + FmtCellLen(i, c - 1) + 3

\* line i consists of the cells of the first row's keys, in that order
FmtLineInKeyOrder(i) ==
    LET line == FmtLine(i)
        ncols == Len(FmtFirstKeys)
    IN  /\ Len(line) = IF ncols = 0 THEN 0 ELSE FmtOffset(i, ncols) + FmtCellLen(i, ncols)
        /\ \A c \in 1..ncols :
              LET off == FmtOffset(i, c)
                  text == FmtCellText(i, c)
              IN  /\ SubSeq(line, off + 1, off + Len(text)) = text
                  /\ \A p \in (off + Len(text) + 1)..(off + FmtCellLen(i, c)) : line[p] = " "
                  /\ c > 1 => SubSeq(line, off - 2, off) = <<" ", "|", " ">>

\* C12: the header lists the columns in the key order of the first row, every
\* data line lists its cells in that same order, and the i-th data line is
\* the i-th input row.
C12_InputOrderPreserved ==
    (FmtCalled /\ fmt_results # <<>>)
    => \A i \in 0..FmtShown : FmtLineInKeyOrder(i)

\* C12 witness: a report of three rows with three columns whose third row
\* (keys in another order, one key of its own) is the third data line.
C12_Witness ==
    /\ FmtCalled
    /\ Len(fmt_results) >= 3
    /\ FmtFirstKeys = <<name, hire_date, Created_TIME>>
    /\ Keys(fmt_results[3]) = <<zz, name, hire_date>>
    /\ SubSeq(FmtLine(3), 1, Len(LongText)) = LongText
    /\ SubSeq(FmtLine(0), 1, Len(name)) = name

\* the fragment that follows the one and only fragment Lit(label) of the report
FmtHasLabel(label) == \E p \in 1..Len(fmt_report) : fmt_report[p] = Lit(label)
FmtAfterLabel(label, j) ==
    fmt_report[(CHOOSE p \in 1..Len(fmt_report) : fmt_report[p] = Lit(label)) + j]
FmtLabelOnce(label) ==
    Cardinality({p \in 1..Len(fmt_report) : fmt_report[p] = Lit(label)}) = 1

\* C13: in the analysis the total row count is the number of input rows (all
\* of them, also beyond the 100 displayed), the column count is the number of
\* keys of the first row, and the column names are those keys joined by ", "
\* in order.
C13_AnalysisCounts ==
    (FmtCalled /\ fmt_results # <<>>)
    => /\ FmtLabelOnce("Result Analysis:\n\n")
       /\ FmtAfterLabel("Result Analysis:\n\n", 1) = Lit("- Total rows: ")
       /\ FmtAfterLabel("Result Analysis:\n\n", 2) = Txt(IntToChars(Len(fmt_results)))
       /\ FmtAfterLabel("Result Analysis:\n\n", 3) = Lit("\n")
       /\ FmtAfterLabel("Result Analysis:\n\n", 4) = Lit("- Columns: ")
       /\ FmtAfterLabel("Result Analysis:\n\n", 5) = Txt(IntToChars(Len(fmt_results[1])))
       /\ FmtAfterLabel("Result Analysis:\n\n", 6) = Lit("\n")
       /\ FmtAfterLabel("Result Analysis:\n\n", 7) = Lit("- Column names: ")
       /\ FmtAfterLabel("Result Analysis:\n\n", 8) = Txt(Join(<<",", " ">>, FmtFirstKeys))
       /\ FmtAfterLabel("Result Analysis:\n\n", 9) = Lit("\n\n")

\* C13 witness: 101 rows of two columns were supplied, 100 are displayed and
\* the analysis reports 101 rows, 2 columns, "id, name".
C13_Witness ==
    /\ FmtCalled
    /\ Len(fmt_results) = 101
    /\ FmtHasLabel(" more rows\n")
    /\ FmtAfterLabel("- Total rows: ", 1) = Txt(<<"1", "0", "1">>)
    /\ FmtAfterLabel("- Columns: ", 1) = Txt(<<"2">>)
    /\ FmtAfterLabel("- Column names: ", 1) = Txt(<<"i", "d", ",", " ", "n", "a", "m", "e">>)

\* the value the first row holds under key col
FmtFirstValue(col) ==
    fmt_results[1][CHOOSE k \in 1..Len(fmt_results[1]) : fmt_results[1][k][1] = col][2]

\* the first row's value of the column is a number, or a text float() accepts
FmtFirstParses(col) ==
    LET v == FmtFirstValue(col)
    IN  \/ "n" \in DOMAIN v
        \/ "s" \in DOMAIN v /\ ParsesAsFloat(v.s)

FmtNumericLabel == "- Numeric columns detected: "

\* C14: a column is listed as numeric if and only if the first row's value
\* for it parses as a floating-point number; later rows never change this,
\* and a null first value is not numeric.
C14_NumericByFirstRow ==
    (FmtCalled /\ fmt_results # <<>>)
    => LET expected == SelectSeq(FmtFirstKeys, FmtFirstParses)
       IN  /\ \A c \in 1..Len(FmtFirstKeys) :
                 FmtFirstValue(FmtFirstKeys[c]) = None
                    => \A k \in 1..Len(expected) : expected[k] # FmtFirstKeys[c]
           /\ IF expected = <<>> THEN ~FmtHasLabel(FmtNumericLabel)
              ELSE /\ FmtLabelOnce(FmtNumericLabel)
                   /\ FmtAfterLabel(FmtNumericLabel, 1) = Txt(Join(<<",", " ">>, expected))
                   /\ FmtAfterLabel(FmtNumericLabel, 2) = Lit("\n")

\* C14 witness: the first row holds 'abc', null and '42', the second row holds
\* '42' in the column that started with 'abc'; only the third column is listed.
C14_Witness ==
    /\ FmtCalled
    /\ Len(fmt_results) >= 2
    /\ fmt_results[1] = << <<name, Str(<<"a", "b", "c">>)>>, <<hire_date, None>>,
                           <<Created_TIME, Str(<<"4", "2">>)>> >>
    /\ fmt_results[2] = << <<name, Str(<<"4", "2">>)>> >>
    /\ FmtAfterLabel(FmtNumericLabel, 1) = Txt(Created_TIME)

\* the name holds 'date' or 'time', letters compared without regard to case
FmtDateName(col) ==
    \E p \in 1..(Len(col) - 3) :
        upper(SubSeq(col, p, p + 3)) \in {<<"D", "A", "T", "E">>, <<"T", "I", "M", "E">>}

FmtDateLabel == "- Date columns: "

\* C15: a column is listed as a date column if and only if its name contains
\* 'date' or 'time' in any case, whatever the column holds; the date-column
\* line is written only when there is such a column.
C15_DateByName ==
    (FmtCalled /\ fmt_results # <<>>)
    => LET expected == SelectSeq(FmtFirstKeys, FmtDateName)
       IN  IF expected = <<>> THEN ~FmtHasLabel(FmtDateLabel)
           ELSE /\ FmtLabelOnce(FmtDateLabel)
                /\ FmtAfterLabel(FmtDateLabel, 1) = Txt(Join(<<",", " ">>, expected))
                /\ FmtAfterLabel(FmtDateLabel, 2) = Lit("\n")

\* C15 witness: hire_date holds null and Created_TIME holds '42'; both are
\* listed as date columns, name is not.
C15_Witness ==
    /\ FmtCalled
    /\ fmt_results # <<>>
    /\ FmtFirstKeys = <<name, hire_date, Created_TIME>>
    /\ FmtFirstValue(hire_date) = None
    /\ FmtAfterLabel(FmtDateLabel, 1) = Txt(hire_date \o <<",", " ">> \o Created_TIME)

FmtSuggestions ==
    << Lit("- Add WHERE clauses to filter specific data\n"),
       Lit("- Use ORDER BY to sort the results\n"),
       Lit("- Try GROUP BY for data aggregation\n") >>

\* the fragments of the report that are one of the three suggestions
FmtSuggestionsAt ==
    {p \in 1..Len(fmt_report) : \E k \in 1..3 : fmt_report[p] = FmtSuggestions[k]}

\* C16: the three generic suggestions (WHERE, ORDER BY, GROUP BY) end the
\* report exactly when more than one row is returned; for a single row none
\* of them is written.
C16_SuggestionsIffSeveralRows ==
    (FmtCalled /\ fmt_results # <<>>)
    => LET last == Len(fmt_report)
       IN  IF Len(fmt_results) > 1
           THEN /\ FmtSuggestionsAt = (last - 2)..last
                /\ SubSeq(fmt_report, last - 2, last) = FmtSuggestions
           ELSE /\ FmtSuggestionsAt = {}
                /\ fmt_report[last] = Lit("\nTry these next:\n")

\* C16 witness: a report of one row, which ends with the heading of the
\* suggestions and has none of them.
C16_Witness ==
    /\ FmtCalled
    /\ Len(fmt_results) = 1
    /\ fmt_report[Len(fmt_report)] = Lit("\nTry these next:\n")
    /\ FmtSuggestionsAt = {}

\* the parts of a text between ", "
RECURSIVE FmtSplit(_)
FmtSplit(s) ==
    LET cuts == {p \in 1..(Len(s) - 1) : s[p] = "," /\ s[p + 1] = " "}
    IN  IF cuts = {} THEN <<s>>
        ELSE <<SubSeq(s, 1, Min(cuts) - 1)>> \o FmtSplit(SubSeq(s, Min(cuts) + 2, Len(s)))

\* the columns the report lists as numeric
FmtListedNumeric ==
    IF FmtHasLabel(FmtNumericLabel)
    THEN LET parts == FmtSplit(FmtAfterLabel(FmtNumericLabel, 1).txt)
         IN  {parts[k] : k \in 1..Len(parts)}
    ELSE {}

\* row i has no value under the key of column c
FmtLacksKey(i, c) ==
    \A k \in 1..Len(fmt_results[i]) : fmt_results[i][k][1] # FmtFirstKeys[c]

---------------------------------------------------------------------------
(* Claims about Config (checked under SpecConfig).                         *)

\* the value of key after the first n calls of set: the latest value set,
\* else the stored value, else the default, else None
CfgRegister(key, n) ==
    LET at == {i \in 1..n : cfg_sets[i].key = key}
    IN  IF at # {} THEN cfg_sets[Max(at)].value
        ELSE IF cfg_file.state = "ok" /\ key \in DOMAIN cfg_file.data
        THEN cfg_file.data[key]
        ELSE IF key \in DOMAIN defaults THEN defaults[key]
        ELSE None

\* C18: the configuration is one shared register per key: get(k) through any
\* Config() returns the value of the most recent set(k, v) made through any
\* Config() (the stored or default value if k was never set), and calling
\* Config() again neither makes a second state nor resets values set before.
C18_SharedRegister ==
    /\ cfg_got # NoGet => cfg_got.value = CfgRegister(cfg_got.key, cfg_got.after)
    /\ Len(cfg_objects) <= 1
    /\ \A h \in 1..Len(cfg_handles) :
          /\ cfg_handles[h].object = cfg_instance
          /\ \A key \in CfgKeys :
                Config_get(cfg_objects, cfg_handles[h].object, key, None)
                    = CfgRegister(key, Len(cfg_sets))

\* C18 witness: test_key was set through the first Config(), then Config()
\* was called again, and get('test_key') through the second returned the
\* value set through the first.
C18_Witness ==
    /\ Len(cfg_handles) = 2
    /\ cfg_handles[2].after >= 1
    /\ cfg_sets[1] = [key |-> "test_key", value |-> IntVal(14)]
    /\ cfg_got = [handle |-> 2, key |-> "test_key", after |-> Len(cfg_sets),
                  value |-> IntVal(14)]
    /\ cfg_file.state = "ok" /\ "test_key" \in DOMAIN cfg_file.data

---------------------------------------------------------------------------
(* Claims about SQLEngine.__init__ (checked under SpecDb).                 *)

Constructed(e) == db_engines[e].pc = "done"

\* the rows of a table, as a set
RowsOf(table) == {table[k] : k \in 1..Len(table)}

\* C19: after SQLEngine initialisation the employees count query returns one
\* row with a positive count, and initialisation is idempotent on the data:
\* however many engines were constructed on the database, it holds exactly
\* the 8 sample employees, 5 departments and 7 sales, no row twice and no
\* other row.
C19_InitIdempotent ==
    /\ \A e \in 1..Len(db_engines) :
          Constructed(e) => /\ Len(count_employees(db_tables)) = 1
                            /\ count_employees(db_tables)[1].count > 0
    /\ Len(db_tables.employees) = Cardinality(RowsOf(db_tables.employees))
    /\ Len(db_tables.departments) = Cardinality(RowsOf(db_tables.departments))
    /\ Len(db_tables.sales) = Cardinality(RowsOf(db_tables.sales))
    /\ RowsOf(db_tables.employees) \subseteq RowsOf(employees_data)
    /\ RowsOf(db_tables.departments) \subseteq RowsOf(departments_data)
    /\ RowsOf(db_tables.sales) \subseteq RowsOf(sales_data)
    /\ (db_engines # <<>> /\ \A e \in 1..Len(db_engines) : Constructed(e))
          => /\ Len(db_tables.employees) = 8
             /\ Len(db_tables.departments) = 5
             /\ Len(db_tables.sales) = 7

\* C19 witness: two engines were constructed on the database, the first ran
\* the 20 inserts, the second found the data and inserted nothing; the
\* tables hold 8, 5 and 7 rows.
C19_Witness ==
    /\ Len(db_engines) = 2
    /\ db_engines[1] = [pc |-> "done", inserted |-> 20]
    /\ db_engines[2] = [pc |-> "done", inserted |-> 0]
    /\ Len(db_tables.employees) = 8
    /\ Len(db_tables.departments) = 5
    /\ Len(db_tables.sales) = 7

---------------------------------------------------------------------------
(* Claims about WeatherAPI.get_current_weather (checked under SpecWeather). *)

WxCalled == wx_returned.called

\* the location the latest call was about
WxAsked == IF wx_returned.location0 = "" THEN "New York" ELSE wx_returned.location0

\* the latest call had no API key to use, or its request or the processing
\* of the answer failed
WxUnavailable ==
    \/ wx_api_key = ""
    \/ wx_returned.requested /\ wx_returned.failure # "none"

\* C20: get_current_weather never raises and always returns a record with a
\* 'temperature'; without an API key, or when the request or its processing
\* fails, it returns the fallback record, marked fallback = True, for the
\* requested location and leaves the cache as it was, so that no cache entry
\* ever holds fallback data.
C20_FallbackNeverCached ==
    WxCalled
    => /\ wx_returned.raised = "none"
       /\ "temperature" \in DOMAIN wx_returned.data
       /\ WxUnavailable
             => /\ "fallback" \in DOMAIN wx_returned.data
                /\ wx_returned.data.fallback = TRUE
                /\ wx_returned.data.location = WxAsked
                /\ wx_returned.data.temperature = IntVal(20)
                /\ wx_cache = wx_returned.cache_before
       /\ \A key \in DOMAIN wx_cache : "fallback" \notin DOMAIN wx_cache[key].data
       /\ ~wx_returned.requested /\ wx_api_key # ""
             => "fallback" \notin DOMAIN wx_returned.data

\* C20 witness: with an API key and a cache entry for Paris that is too old,
\* the request for Paris failed: the fallback record for Paris came back and
\* the cache still holds the old entry.
C20_Witness ==
    /\ WxCalled
    /\ wx_api_key = "key"
    /\ wx_returned.location0 = "Paris"
    /\ wx_returned.requested
    /\ wx_returned.failure = "RequestException"
    /\ wx_returned.data.fallback = TRUE
    /\ <<"current", "Paris">> \in DOMAIN wx_cache
    /\ wx_now - wx_cache[<<"current", "Paris">>].timestamp >= 30
    /\ wx_cache = wx_returned.cache_before

\* the length of a line whose first c cells take exactly their column's width
RECURSIVE FmtFixedLength(_)
FmtFixedLength(c) ==
    IF c = 0 THEN 0
    ELSE FmtFixedLength(c - 1) + (IF c > 1 THEN 3 ELSE 0)
            + ColWidth(fmt_results, FmtFirstKeys[c])

\* C21 as stated: every header cell and every data cell takes exactly the
\* computed width of its column (a longer text is cut), so the header, the
\* rule of '-' and every data line have the same length.
C21_FixedWidthTable ==
    (FmtCalled /\ fmt_results # <<>>)
    => /\ \A i \in 0..FmtShown :
             /\ Len(FmtLine(i)) = FmtFixedLength(Len(FmtFirstKeys))
             /\ \A c \in 1..Len(FmtFirstKeys) :
                   FmtOffset(i, c) = FmtFixedLength(c - 1) + (IF c > 1 THEN 3 ELSE 0)
       /\ Len(fmt_report[9].txt) = FmtFixedLength(Len(FmtFirstKeys))

\* min(20, max(length of the name, longest str(value) of the first 10 rows)),
\* a row without the key counting 0
FmtClaimedWidth(c) ==
    LET sampled == IF Len(fmt_results) < 10 THEN Len(fmt_results) ELSE 10
        longest == Max({Len(FmtCellText(i, c)) : i \in 0..sampled})
    IN  IF longest > 20 THEN 20 ELSE longest

\* C22: the display width of every column is min(20, max(length of the
\* column name, longest str(value) among the first 10 rows)), a missing value
\* counting 0; it lies between 0 and 20 and rows after the 10th have no
\* influence on it.  The header cell shows the width.
C22_WidthFromFirstTenRows ==
    (FmtCalled /\ fmt_results # <<>>)
    => /\ \A c \in 1..Len(FmtFirstKeys) :
             /\ ColWidth(fmt_results, FmtFirstKeys[c]) = FmtClaimedWidth(c)
             /\ FmtClaimedWidth(c) \in 0..20
       /\ FmtLine(0) = Join(<<" ", "|", " ">>,
                            [c \in 1..Len(FmtFirstKeys) |->
                                FmtFirstKeys[c]
                                  \o Repeat(" ", FmtClaimedWidth(c) - Len(FmtFirstKeys[c]))])

\* C22 witness: 100 rows are displayed, the 100th holds '100' in column id,
\* and the header shows id with the width 2 of the first ten rows.
C22_Witness ==
    /\ FmtCalled
    /\ Len(fmt_results) >= 100
    /\ FmtFirstKeys = <<id, name>>
    /\ FmtCellText(100, 1) = <<"1", "0", "0">>
    /\ FmtLine(0) = <<"i", "d", " ", "|", " ", "n", "a", "m", "e">>

---------------------------------------------------------------------------
(* Claims about repeated display_query_results (checked under SpecFresh).  *)

\* the positions of the report that hold the heading of the echoed query
FmtEchoAt == {p \in 1..Len(fmt_report) : fmt_report[p] = Lit("Executed Query:\n")}

\* C23: each report is produced fresh: after any sequence of
\* display_query_results calls the box begins with the echo of the latest
\* query and holds what that call's (query, rows) alone give; nothing of an
\* earlier report remains, also when an empty result follows a table.
C23_ReportProducedFresh ==
    FmtCalled
    => /\ Len(fmt_report) >= 3
       /\ fmt_report[1] = Lit("Executed Query:\n")
       /\ fmt_report[2] = Txt(fmt_query)
       /\ fmt_report[3] = Lit("\n\n")
       /\ FmtEchoAt = {1}
       /\ fmt_report = display_query_results(<<>>, fmt_query, fmt_results)
       /\ fmt_results = <<>> => Len(fmt_report) = 8

\* C23 witness: a table of two rows for one query was displayed, then an
\* empty result for another query: the box holds the eight lines of the
\* empty report only.
C23_Witness ==
    /\ FmtCalled
    /\ Len(fmt_earlier) >= 2
    /\ fmt_earlier[Len(fmt_earlier) - 1].rows = 2
    /\ fmt_earlier[Len(fmt_earlier) - 1].query # fmt_query
    /\ fmt_results = <<>>
    /\ Len(fmt_report) = 8
    /\ fmt_report[2] = Txt(fmt_query)

---------------------------------------------------------------------------
(* Claims about concurrent callers (checked under SpecConcurrent).         *)

Returned(c) == cc_callers[c].op # "none" /\ cc_callers[c].returned

\* what the invocation of caller c yields when it runs alone
CcVerdictAlone(c) == validate_sql_query(cc_callers[c].query)
CcReportAlone(c) ==
    IF cc_callers[c].results = <<>>
    THEN << Lit("Executed Query:\n"), Txt(cc_callers[c].query), Lit("\n\n"),
            Lit("Results: No rows returned.\n\n"),
            Lit("This might mean:\n"),
            Lit("   - The query conditions didn't match any data\n"),
            Lit("   - The table is empty\n"),
            Lit("   - There might be a logical error in the query\n") >>
    ELSE display_query_results(<<>>, cc_callers[c].query, cc_callers[c].results)

---------------------------------------------------------------------------
(* Claims about the Config operations (checked under SpecSettings).        *)

\* what a reader of config_data sees
StSettings == Deep(st_heap, st_config_data)
StRecent == StSettings["recent_projects"].list

\* the values the literal of self.defaults gives
StOriginalDefaults ==
    [font_size |-> IntVal(12),
     sql_tutorial_progress |-> [dict |-> <<>>],
     recent_projects |-> [list |-> <<>>]]

\* C25: after reset_to_defaults every key holds its original default
\* value, whatever operations preceded; sql_tutorial_progress is the empty
\* mapping and recent_projects the empty list again.
C25_ResetRestoresDefaults ==
    st_last.op = "reset_to_defaults"
    => /\ DOMAIN StSettings = DOMAIN StOriginalDefaults
       /\ \A key \in DOMAIN StOriginalDefaults :
             StSettings[key] = StOriginalDefaults[key]

StNoDuplicate(list) == \A i, j \in 1..Len(list) : list[i] = list[j] => i = j
StPosition(list, x) == Min({i \in 1..Len(list) : list[i] = x})

\* C26: after add_recent_project(path) recent_projects has no duplicate
\* and at most 10 entries, starts with path, and its other entries are
\* entries of the previous list in their previous order.
C26_RecentProjectsList ==
    st_last.op = "add_recent_project"
    => /\ StNoDuplicate(StRecent)
       /\ Len(StRecent) <= 10
       /\ Len(StRecent) >= 1
       /\ StRecent[1] = st_last.project_path
       /\ \A i \in 2..Len(StRecent) :
             /\ \E k \in 1..Len(st_last.before) : st_last.before[k] = StRecent[i]
             /\ \A j \in (i + 1)..Len(StRecent) :
                   StPosition(st_last.before, StRecent[i])
                       < StPosition(st_last.before, StRecent[j])

\* C26 witness: a path that was third of ten is added, then a new path:
\* the first moves to the front, the second pushes the tenth entry out.
C26_Witness ==
    /\ st_last.op = "add_recent_project"
    /\ st_last.project_path = "p"
    /\ st_last.before = <<"f3", "f1", "f2", "f4", "f5", "f6", "f7", "f8", "f9", "f10">>
    /\ StRecent = <<"p", "f3", "f1", "f2", "f4", "f5", "f6", "f7", "f8", "f9">>

---------------------------------------------------------------------------
(* Claims about the weather widget (checked under SpecAutoRefresh and      *)
(* SpecWeatherLoads).                                                      *)

\* C27: whenever auto-refresh is enabled exactly one auto-refresh timer is
\* pending, from start-up on and after any number of clicks on the option.
C27_OnePendingTimer == ww_auto_refresh => ww_timers = 1

\* update_weather_display has shown something and is not in progress
WwDisplayed == ww_display = "idle" /\ ww_shown.current # NoData

\* C28: whenever the widget has updated its display, the current weather
\* and the forecast it shows were fetched by the same load for the same
\* location.
C28_ShownBySameLoad ==
    WwDisplayed
    => /\ ww_shown.forecast.load = ww_shown.current.load
       /\ ww_shown.forecast.location = ww_shown.current.location

---------------------------------------------------------------------------
(* Claims about the code editor (checked under SpecEditor).                *)

\* C29: whenever the text of a named file has been edited since it was
\* last opened or saved, the modified indicator shows the Modified text,
\* until the next save, open or new, also when the edit falls into the 2
\* seconds after a save.
C29_EditedShowsModified ==
    (ed_current_file # "" /\ ed_edited) => ed_modified_label = Modified

---------------------------------------------------------------------------
(* Claims about the example queries (checked under SpecTutorial).          *)

TuTutorials == get_sql_tutorials
TuExamples(i) == TuTutorials[i + 1].examples

\* C30: after load_tutorial(i) with a valid index the k-th
\* load_example_query loads example (k - 1) mod n of tutorial i;
\* current_lesson stays within 0..n-1; load_tutorial with an index past
\* the list changes neither current_tutorial nor current_lesson.
C30_ExamplesCycle ==
    /\ tu_current_lesson \in 0..(Len(TuExamples(tu_current_tutorial)) - 1)
    /\ last_handler = "load_example_query"
       => LET n == Len(TuExamples(tu_valid_load))
              example == TuExamples(tu_valid_load)[((tu_since_load - 1) % n) + 1]
          IN  /\ tu_since_load >= 1
              /\ query_input = example.query
              /\ validation_label = <<Lit("Example: "), Lit(example.explanation)>>
    /\ (tu_last.op = "load_tutorial" /\ tu_last.tutorial_index >= Len(TuTutorials))
       => <<tu_current_tutorial, tu_current_lesson>> = tu_last.before

\* C30 witness: the fifth Example click on JOIN Operations (two examples)
\* has loaded its first example again, and the load_tutorial(5) that
\* followed left current_tutorial at 2 and current_lesson at 1.
C30_Witness ==
    /\ tu_last.op = "load_tutorial"
    /\ tu_last.tutorial_index = 5
    /\ tu_valid_load = 2
    /\ tu_since_load = 5
    /\ query_input = joins_query_1
    /\ validation_label = <<Lit("Example: "), Lit("Inner join to get employee sales data")>>
    /\ tu_current_tutorial = 2
    /\ tu_current_lesson = 1

=============================================================================
